---------------------------- MODULE Spec2Model ----------------------------
(***************************************************************************)
(* FarmFlow (src/app.py): the sqlite tables stok, sulama, gubreleme, hasat *)
(* and faturalar, the stock deduction helpers deduct_stock_item and        *)
(* batch_deduct_stock, and the request handlers /stok, /hasat, /sulama and *)
(* /gubreleme that write them.                                             *)
(*                                                                         *)
(* Text is ASCII here: "Gubre" is the category 'Gübre', "Gubreli" and      *)
(* "Ilacli" are the irrigation types 'Gübreli' and 'İlaçlı'.               *)
(* Quantities are REAL columns filled by float(); the model uses integers. *)
(* A date (tarih) and a timestamp (modified_at) are both the day number    *)
(* `now`.  A notes column (notlar) is a sequence of text pieces, <<>> being *)
(* the empty string.  Columns no handler of this model reads (birim,       *)
(* min_stok, maliyet, olusturma_tarihi) are left out.  The dates of an     *)
(* invoice that are still NULL (fiyat_belirleme_tarihi, fatura_tarihi,     *)
(* tahsil_tarihi) are day 0.  Dates typed into a form (hasat_tarihi, the   *)
(* tarih of a cost, the range of a report) are text and are compared as    *)
(* text.                                                                   *)
(***************************************************************************)
EXTENDS Integers, Sequences, FiniteSets, TLC

VARIABLES
    stok,        \* table stok: row id = index
    sulama,      \* table sulama
    gubreleme,   \* table gubreleme
    hasat,       \* table hasat
    faturalar,   \* table faturalar
    now,         \* datetime.now(), as a day number
    user,        \* current_user.kullanici_adi of the logged-in session
    nreq,        \* number of POST requests handled so far
    last,        \* what the last request did: its form, flashes, helper calls
    conns,       \* the sqlite connections of requests running concurrently
    maliyetler,  \* table maliyetler
    kar_zarar,   \* table kar_zarar
    uretim,      \* table uretim
    personeller, \* table personel
    gorevler,    \* table gorevler
    devam,       \* table devam
    users,       \* table users (models.User)
    login_attempts  \* table login_attempts (models.LoginAttempt)

\* The variables the stock handlers leave alone
others ==
    <<conns, maliyetler, kar_zarar, uretim, personeller, gorevler, devam, users,
      login_attempts>>

vars ==
    <<stok, sulama, gubreleme, hasat, faturalar, now, user, nreq, last, others>>

----------------------------------------------------------------------------
(* Bounds *)

MaxReq == 2        \* POST requests per behaviour
MaxDay == 4        \* last day the clock reaches
MaxFinReq == 3     \* finance requests per behaviour

----------------------------------------------------------------------------
(* Form text and float() *)

NumText == ("-1" :> (0 - 1)) @@ ("0" :> 0) @@ ("1" :> 1) @@ ("2" :> 2)
           @@ ("3" :> 3) @@ ("4" :> 4)

\* float(s) raises ValueError unless s is the text of a number
IsNum(s) == s \in DOMAIN NumText

Float(s) == NumText[s]

\* float(request.form.get(k, 0) or 0): an absent or empty field is 0
IsNumOr0(s) == s = "" \/ IsNum(s)

FloatOr0(s) == IF s = "" THEN 0 ELSE Float(s)

----------------------------------------------------------------------------
(* Amounts of money.  float() also reads 'inf' and 'nan', and the finance  *)
(* handlers multiply, add and subtract what it returns, so an amount is a  *)
(* record: a number, an infinity (v is its sign) or not-a-number.  NULL is *)
(* what a column holds that no statement has set.                          *)

Num(n) == [k |-> "num", v |-> n]

Inf == [k |-> "inf", v |-> 1]

NegInf == [k |-> "inf", v |-> 0 - 1]

NaN == [k |-> "nan", v |-> 0]

Null == [k |-> "null", v |-> 0]

Sign(a) == IF a.v > 0 THEN 1 ELSE IF a.v < 0 THEN 0 - 1 ELSE 0

\* a + b
FAdd(a, b) ==
    IF a.k = "nan" \/ b.k = "nan" THEN NaN
    ELSE IF a.k = "inf" THEN (IF b.k = "inf" /\ b.v # a.v THEN NaN ELSE a)
    ELSE IF b.k = "inf" THEN b
    ELSE Num(a.v + b.v)

\* a - b
FSub(a, b) ==
    FAdd(a, IF b.k = "nan" THEN NaN ELSE [b EXCEPT !.v = 0 - b.v])

\* a * b
FMul(a, b) ==
    IF a.k = "nan" \/ b.k = "nan" THEN NaN
    ELSE IF a.k = "inf" \/ b.k = "inf"
    THEN (IF Sign(a) * Sign(b) = 0 THEN NaN
          ELSE IF Sign(a) * Sign(b) > 0 THEN Inf ELSE NegInf)
    ELSE Num(a.v * b.v)

\* a > 0
FPos(a) == a.k # "nan" /\ a.v > 0

\* float(s) of a price or an amount of money
IsReal(s) == IsNum(s) \/ s \in {"inf", "nan"}

Real(s) == IF s = "inf" THEN Inf ELSE IF s = "nan" THEN NaN ELSE Num(Float(s))

\* A Python float bound to a statement parameter: sqlite3 stores nan as NULL
Bind(a) == IF a.k = "nan" THEN Null ELSE a

----------------------------------------------------------------------------
(* Audit helpers *)

\* No session: current_user.is_authenticated is False
Anonymous == ""

\* get_current_username(), for the session of user s
get_current_username(s) == IF s = Anonymous THEN "sistem" ELSE s

\* Variant: the creator is always written as 'sistem'
add_audit_fields_for_create_Sistem(u, ts) ==
    [created_by |-> "sistem", modified_by |-> u, modified_at |-> ts]

add_audit_fields_for_create(u, ts) ==
    [created_by |-> u, modified_by |-> u, modified_at |-> ts]

add_audit_fields_for_update(u, ts) ==
    [modified_by |-> u, modified_at |-> ts]

----------------------------------------------------------------------------
(* Stock deduction helpers *)

\* Variant: WHERE kategori = ? AND miktar > ?
Sufficient_Strict(s, kategori, miktar) ==
    {i \in DOMAIN s : s[i].kategori = kategori /\ s[i].miktar > miktar}

\* WHERE kategori = ? AND miktar >= ?
Sufficient(s, kategori, miktar) ==
    {i \in DOMAIN s : s[i].kategori = kategori /\ s[i].miktar >= miktar}

\* Variant: ORDER BY tarih DESC LIMIT 1
OrderByTarihLimit1_Desc(s, C) ==
    {i \in C : \A j \in C : s[i].tarih >= s[j].tarih}

\* ORDER BY tarih ASC LIMIT 1: SQL leaves the order of rows with equal tarih
\* unspecified, so every row of the earliest date is a possible result
OrderByTarihLimit1(s, C) ==
    {i \in C : \A j \in C : s[i].tarih <= s[j].tarih}

\* Variant: SET notlar = ?, the description replaces the notes
AppendNote_Overwrites(notlar, desc) ==
    desc

\* notlar = COALESCE(notlar, '') || CASE WHEN COALESCE(notlar, '') = ''
\*          THEN ? ELSE '; ' || ? END
AppendNote(notlar, desc) ==
    IF notlar = <<>> THEN desc ELSE notlar \o <<"; ">> \o desc

\* Variant: SET miktar = the requested amount instead of what remains
DeductRow_SetsRequested(row, miktar, desc, u, ts) ==
    [row EXCEPT !.miktar = miktar,
                !.modified_by = u,
                !.modified_at = ts,
                !.notlar = AppendNote(row.notlar, desc)]

\* The UPDATE of deduct_stock_item on one row
DeductRow(row, miktar, desc, u, ts) ==
    LET audit_fields == add_audit_fields_for_update(u, ts)
        new_quantity == row.miktar - miktar
    IN  [row EXCEPT !.miktar = new_quantity,
                    !.modified_by = audit_fields.modified_by,
                    !.modified_at = audit_fields.modified_at,
                    !.notlar = AppendNote(row.notlar, desc)]

\* kategori.lower(), on the categories the handlers pass
Lower(kategori) ==
    CASE kategori = "Gubre" -> "gubre"
      [] kategori = "Kutu" -> "kutu"
      [] kategori = "Palet" -> "palet"
      [] kategori = "Pestisit" -> "pestisit"
      [] kategori = "Kimyasal" -> "kimyasal"
      [] OTHER -> kategori

\* The largest quantity a single row of the category holds, 0 without rows
Available(s, kategori) ==
    LET K == {i \in DOMAIN s : s[i].kategori = kategori}
    IN  IF K = {} THEN 0
        ELSE s[CHOOSE i \in K : \A j \in K : s[i].miktar >= s[j].miktar].miktar

\* Variant: the message reports what is missing, not what was asked for
YetersizMessage_Shortfall(s, kategori, miktar) ==
    [text |-> "Yetersiz stoku", kategori |-> Lower(kategori),
     gerekli |-> miktar - Available(s, kategori)]

\* f"Yetersiz {kategori.lower()} stoku (gerekli: {miktar})"; s is the table
\* the SELECT found no row in, which the message does not use
YetersizMessage(s, kategori, miktar) ==
    [text |-> "Yetersiz stoku", kategori |-> Lower(kategori),
     gerekli |-> miktar]

\* f"{miktar} {item['birim']} {item['malzeme_adi']} stoktan dusuldu"
DusulduMessage(row, miktar) ==
    [text |-> "stoktan dusuldu", miktar |-> miktar,
     malzeme_adi |-> row.malzeme_adi]

\* Variant: UPDATE stok SET miktar = miktar - ?, relative to the row as it is
StaleUpdate_Relative(row, item, miktar, desc, u, ts) ==
    DeductRow(row, miktar, desc, u, ts)

\* The UPDATE of deduct_stock_item run some time after its SELECT returned
\* item: miktar is set to the absolute new_quantity = item['miktar'] - miktar,
\* the note is appended to the notes the row has when the UPDATE runs
StaleUpdate(row, item, miktar, desc, u, ts) ==
    DeductRow([row EXCEPT !.miktar = item.miktar], miktar, desc, u, ts)

\* Variant: the UPDATE runs on the category's oldest row before the result of
\* the SELECT is tested, so a failing call still stamps that row
deduct_stock_item_WritesFirst(s, kategori, miktar, desc, u, ts) ==
    LET C == Sufficient(s, kategori, miktar)
        K == {i \in DOMAIN s : s[i].kategori = kategori}
    IN  IF C = {}
        THEN {[ok |-> FALSE, kind |-> "Yetersiz", kategori |-> kategori,
               miktar |-> miktar, malzeme_adi |-> "", id |-> 0,
               desc |-> desc,
               message |-> YetersizMessage(s, kategori, miktar),
               pre |-> s,
               stok |-> [i \in DOMAIN s |->
                           IF i \in OrderByTarihLimit1(s, K)
                           THEN [s[i] EXCEPT !.modified_by = u,
                                             !.modified_at = ts,
                                             !.notlar = AppendNote(@, desc)]
                           ELSE s[i]]]}
        ELSE {[ok |-> TRUE, kind |-> "dusuldu", kategori |-> kategori,
               miktar |-> miktar, malzeme_adi |-> s[i].malzeme_adi, id |-> i,
               desc |-> desc, message |-> DusulduMessage(s[i], miktar),
               pre |-> s,
               stok |-> [s EXCEPT ![i] = DeductRow(s[i], miktar, desc, u, ts)]]
              : i \in OrderByTarihLimit1(s, C)}

\* deduct_stock_item(conn, kategori, miktar, operation_description): the set
\* of possible results.  A result records the returned flag (ok), the returned
\* message, the arguments (kategori, miktar, desc), the row chosen (id, 0 if
\* none; kind and malzeme_adi say which branch returned and on which material)
\* and the connection's stok table before (pre) and after (stok) the call.
deduct_stock_item(s, kategori, miktar, desc, u, ts) ==
    LET C == Sufficient(s, kategori, miktar)
    IN  IF C = {}
        THEN {[ok |-> FALSE, kind |-> "Yetersiz", kategori |-> kategori,
               miktar |-> miktar, malzeme_adi |-> "", id |-> 0,
               desc |-> desc,
               message |-> YetersizMessage(s, kategori, miktar),
               pre |-> s, stok |-> s]}
        ELSE {[ok |-> TRUE, kind |-> "dusuldu", kategori |-> kategori,
               miktar |-> miktar, malzeme_adi |-> s[i].malzeme_adi, id |-> i,
               desc |-> desc, message |-> DusulduMessage(s[i], miktar),
               pre |-> s,
               stok |-> [s EXCEPT ![i] = DeductRow(s[i], miktar, desc, u, ts)]]
              : i \in OrderByTarihLimit1(s, C)}

\* Variant: the loop has no "if miktar > 0" test
RECURSIVE BatchFrom_NoSkip(_, _, _, _, _)
BatchFrom_NoSkip(s, ds, acc, u, ts) ==
    IF ds = <<>>
    THEN {[ok |-> TRUE, results |-> acc, stok |-> s]}
    ELSE LET d == Head(ds)
         IN  UNION {IF r.ok
                    THEN BatchFrom_NoSkip(r.stok, Tail(ds), Append(acc, r),
                                          u, ts)
                    ELSE {[ok |-> FALSE, results |-> Append(acc, r),
                           stok |-> r.stok]}
                    : r \in deduct_stock_item(s, d.kategori, d.miktar,
                                              d.desc, u, ts)}

\* Variant: every deduction of the batch reads the rows as they were when the
\* batch began, and the writes of the successful ones are merged afterwards
RECURSIVE BatchFrom_Snapshot(_, _, _, _, _)
BatchFrom_Snapshot(s, ds, acc, u, ts) ==
    LET s0 == IF acc = <<>> THEN s ELSE acc[1].pre
    IN  IF ds = <<>>
        THEN {[ok |-> TRUE, results |-> acc, stok |-> s]}
        ELSE LET d == Head(ds)
             IN  IF d.miktar > 0
                 THEN UNION {IF r.ok
                             THEN BatchFrom_Snapshot(
                                      [s EXCEPT ![r.id] = r.stok[r.id]],
                                      Tail(ds), Append(acc, r), u, ts)
                             ELSE {[ok |-> FALSE, results |-> Append(acc, r),
                                    stok |-> s]}
                             : r \in deduct_stock_item(s0, d.kategori, d.miktar,
                                                       d.desc, u, ts)}
                 ELSE BatchFrom_Snapshot(s, Tail(ds), acc, u, ts)

\* Variant: the loop does not return at the first failure
RECURSIVE BatchFrom_NoStop(_, _, _, _, _)
BatchFrom_NoStop(s, ds, acc, u, ts) ==
    IF ds = <<>>
    THEN {[ok |-> \A k \in DOMAIN acc : acc[k].ok, results |-> acc,
           stok |-> s]}
    ELSE LET d == Head(ds)
         IN  IF d.miktar > 0
             THEN UNION {BatchFrom_NoStop(r.stok, Tail(ds), Append(acc, r),
                                          u, ts)
                         : r \in deduct_stock_item(s, d.kategori, d.miktar,
                                                   d.desc, u, ts)}
             ELSE BatchFrom_NoStop(s, Tail(ds), acc, u, ts)

\* Variant: on a failure the helper puts back what the batch had deducted
RECURSIVE BatchFrom_Undo(_, _, _, _, _)
BatchFrom_Undo(s, ds, acc, u, ts) ==
    IF ds = <<>>
    THEN {[ok |-> TRUE, results |-> acc, stok |-> s]}
    ELSE LET d == Head(ds)
         IN  IF d.miktar > 0
             THEN UNION {IF r.ok
                         THEN BatchFrom_Undo(r.stok, Tail(ds), Append(acc, r),
                                             u, ts)
                         ELSE {[ok |-> FALSE, results |-> Append(acc, r),
                                stok |-> IF acc = <<>> THEN s
                                         ELSE acc[1].pre]}
                         : r \in deduct_stock_item(s, d.kategori, d.miktar,
                                                   d.desc, u, ts)}
             ELSE BatchFrom_Undo(s, Tail(ds), acc, u, ts)

\* batch_deduct_stock(conn, deductions): the set of possible results, each
\* the returned flag (ok), the results list, the deductions passed and the
\* connection's stok table before (pre) and after (stok) the call.
RECURSIVE BatchFrom(_, _, _, _, _)
BatchFrom(s, ds, acc, u, ts) ==
    IF ds = <<>>
    THEN {[ok |-> TRUE, results |-> acc, stok |-> s]}
    ELSE LET d == Head(ds)
         IN  IF d.miktar > 0
             THEN UNION {IF r.ok
                         THEN BatchFrom(r.stok, Tail(ds), Append(acc, r), u, ts)
                         ELSE {[ok |-> FALSE, results |-> Append(acc, r),
                                stok |-> r.stok]}
                         : r \in deduct_stock_item(s, d.kategori, d.miktar,
                                                   d.desc, u, ts)}
             ELSE BatchFrom(s, Tail(ds), acc, u, ts)

batch_deduct_stock(s, deductions, u, ts) ==
    {[ok |-> b.ok, results |-> b.results, stok |-> b.stok,
      pre |-> s, deductions |-> deductions]
     : b \in BatchFrom(s, deductions, <<>>, u, ts)}

Deduction(kategori, miktar, desc) ==
    [kategori |-> kategori, miktar |-> miktar, desc |-> desc]


\* A form field as stored text: '' is the empty text
Text(t) == IF t = "" THEN <<>> ELSE <<t>>

\* The tables a connection sees
Tables == [stok |-> stok, sulama |-> sulama, gubreleme |-> gubreleme,
           hasat |-> hasat, faturalar |-> faturalar]

\* What a handler leaves behind: the committed tables, the flashed messages
\* and the batch_deduct_stock calls it made
Outcome(db, flash, calls) == [db |-> db, flash |-> flash, calls |-> calls]

\* conn.commit(): the connection's tables (work) become the committed ones
Commit(db, work) == work

\* Variant: the failure branch commits instead of rolling back
Rollback_Commits(db, work) == work

\* conn.rollback(): the connection's uncommitted writes (work) are dropped
Rollback(db, work) == db

----------------------------------------------------------------------------
(* POST /stok *)

\* SELECT * FROM stok WHERE malzeme_adi = ? AND depo = ?
Mevcut(s, malzeme_adi, depo) ==
    {i \in DOMAIN s : s[i].malzeme_adi = malzeme_adi /\ s[i].depo = depo}

StokInsert(s, f, miktar, u, ts) ==
    LET audit_fields == add_audit_fields_for_create(u, ts)
    IN  Append(s, [malzeme_adi |-> f.malzeme_adi, kategori |-> f.kategori,
                   miktar |-> miktar, tarih |-> ts, depo |-> f.depo,
                   notlar |-> Text(f.notlar),
                   created_by |-> audit_fields.created_by,
                   modified_by |-> audit_fields.modified_by,
                   modified_at |-> audit_fields.modified_at])

\* Variant: a removal empties the row
StokCikar_Empties(s, i, miktar, u, ts) ==
    LET audit_fields == add_audit_fields_for_update(u, ts)
    IN  [s EXCEPT ![i].miktar = 0,
                  ![i].modified_by = audit_fields.modified_by,
                  ![i].modified_at = audit_fields.modified_at]

StokCikar(s, i, miktar, u, ts) ==
    LET audit_fields == add_audit_fields_for_update(u, ts)
        yeni_miktar == s[i].miktar - miktar
    IN  [s EXCEPT ![i].miktar = yeni_miktar,
                  ![i].modified_by = audit_fields.modified_by,
                  ![i].modified_at = audit_fields.modified_at]

StokEkle(s, i, f, miktar, u, ts) ==
    LET audit_fields == add_audit_fields_for_update(u, ts)
        yeni_miktar == s[i].miktar + miktar
    IN  [s EXCEPT ![i].miktar = yeni_miktar,
                  ![i].notlar = Text(f.notlar),
                  ![i].modified_by = audit_fields.modified_by,
                  ![i].modified_at = audit_fields.modified_at]

\* The POST branch of stok(): the set of possible outcomes
StokHandler(db, f, u, ts) ==
    IF ~IsNum(f.miktar)
    THEN {Outcome(db, <<"sayisal">>, <<>>)}
    ELSE IF f.malzeme_adi = ""
    THEN {Outcome(db, <<"zorunlu">>, <<>>)}
    ELSE LET miktar == Float(f.miktar)
             M == Mevcut(db.stok, f.malzeme_adi, f.depo)
         IN  IF M = {}
             THEN {Outcome(Commit(db, [db EXCEPT !.stok =
                                          StokInsert(@, f, miktar, u, ts)]),
                           <<"success">>, <<>>)}
             ELSE {IF f.islem_turu = "cikar"
                   THEN IF db.stok[i].miktar - miktar < 0
                        THEN Outcome(db, <<"Yetersiz stok">>, <<>>)
                        ELSE Outcome(Commit(db, [db EXCEPT !.stok =
                                          StokCikar(@, i, miktar, u, ts)]),
                                     <<"success">>, <<>>)
                   ELSE IF f.islem_turu = "ekle"
                   THEN Outcome(Commit(db, [db EXCEPT !.stok =
                                     StokEkle(@, i, f, miktar, u, ts)]),
                                <<"success">>, <<>>)
                   ELSE Outcome(Commit(db, [db EXCEPT !.stok =
                                     StokInsert(@, f, miktar, u, ts)]),
                                <<"success">>, <<>>)
                   : i \in M}

----------------------------------------------------------------------------
(* POST /gubreleme *)

\* Variant: the record is stored without its amount
GubrelemeInsert_NoAmount(g, f, gubre_miktari, u, ts) ==
    LET audit_fields == add_audit_fields_for_create(u, ts)
    IN  Append(g, [tarih |-> f.tarih, sera_adi |-> f.sera_adi,
                   gubre_adi |-> f.gubre_adi, gubre_miktari |-> 0,
                   personel |-> f.personel,
                   created_by |-> audit_fields.created_by,
                   modified_by |-> audit_fields.modified_by,
                   modified_at |-> audit_fields.modified_at])

GubrelemeInsert(g, f, gubre_miktari, u, ts) ==
    LET audit_fields == add_audit_fields_for_create(u, ts)
    IN  Append(g, [tarih |-> f.tarih, sera_adi |-> f.sera_adi,
                   gubre_adi |-> f.gubre_adi, gubre_miktari |-> gubre_miktari,
                   personel |-> f.personel,
                   created_by |-> audit_fields.created_by,
                   modified_by |-> audit_fields.modified_by,
                   modified_at |-> audit_fields.modified_at])

\* The POST branch of gubreleme(): the set of possible outcomes
GubrelemeHandler(db, f, u, ts) ==
    IF ~IsNum(f.gubre_miktari)
    THEN {Outcome(db, <<"sayisal">>, <<>>)}
    ELSE LET gubre_miktari == Float(f.gubre_miktari)
         IN  IF f.sera_adi = "" \/ f.gubre_adi = "" \/ f.personel = ""
                \/ f.tarih = "" \/ gubre_miktari <= 0
             THEN {Outcome(db, <<"zorunlu">>, <<>>)}
             ELSE LET deductions ==
                          <<Deduction("Gubre", gubre_miktari,
                                      <<"Gubreleme - ", f.tarih, " - ",
                                        f.sera_adi>>)>>
                  IN  {IF b.ok
                       THEN Outcome(Commit(db, [db EXCEPT
                                       !.stok = b.stok,
                                       !.gubreleme = GubrelemeInsert(
                                           @, f, gubre_miktari, u, ts)]),
                                    <<"success">>, <<b>>)
                       ELSE Outcome(Rollback(db, [db EXCEPT !.stok = b.stok]),
                                    <<"Stok yetersiz">>, <<b>>)
                       : b \in batch_deduct_stock(db.stok, deductions, u, ts)}

----------------------------------------------------------------------------
(* POST /hasat *)

HasatInsert(h, f, hasat_miktari, kutu_sayisi, palet_sayisi, u, ts) ==
    LET audit_fields == add_audit_fields_for_create(u, ts)
    IN  Append(h, [hasat_tarihi |-> f.hasat_tarihi,
                   parsil_alan |-> f.parsil_alan,
                   hasat_miktari |-> hasat_miktari,
                   hasat_eden |-> f.hasat_eden,
                   teslim_edilen |-> f.teslim_edilen,
                   kutu_sayisi |-> kutu_sayisi,
                   palet_sayisi |-> palet_sayisi,
                   created_by |-> audit_fields.created_by,
                   modified_by |-> audit_fields.modified_by,
                   modified_at |-> audit_fields.modified_at])

FaturaInsert(fa, hasat_id, f, hasat_miktari, u, ts) ==
    LET audit_fields == add_audit_fields_for_create(u, ts)
    IN  Append(fa, [hasat_id |-> hasat_id, firma_adi |-> f.teslim_edilen,
                    hasat_tarihi |-> f.hasat_tarihi, miktar |-> hasat_miktari,
                    birim_fiyat |-> Null, toplam_tutar |-> Null,
                    durum |-> "Beklemede", fiyat_belirleme_tarihi |-> 0,
                    fatura_tarihi |-> 0, tahsil_tarihi |-> 0, notlar |-> <<>>,
                    created_by |-> audit_fields.created_by,
                    modified_by |-> audit_fields.modified_by,
                    modified_at |-> audit_fields.modified_at])

HasatDeductions(f, kutu_sayisi, palet_sayisi) ==
    LET desc == <<"Hasat kullanimi - ", f.hasat_tarihi, " - ", f.parsil_alan>>
    IN  (IF kutu_sayisi > 0
         THEN <<Deduction("Kutu", kutu_sayisi, desc)>> ELSE <<>>)
        \o
        (IF palet_sayisi > 0
         THEN <<Deduction("Palet", palet_sayisi, desc)>> ELSE <<>>)

\* Variant: an invoice is created whether or not a recipient was given
HasatInserts_AlwaysInvoice(db, s, f, hasat_miktari, kutu_sayisi, palet_sayisi, u, ts) ==
    LET h == HasatInsert(db.hasat, f, hasat_miktari, kutu_sayisi,
                         palet_sayisi, u, ts)
    IN  [db EXCEPT !.stok = s,
                   !.hasat = h,
                   !.faturalar = FaturaInsert(@, Len(h), f, hasat_miktari,
                                              u, ts)]

\* The inserts of hasat() once the stock is deducted
HasatInserts(db, s, f, hasat_miktari, kutu_sayisi, palet_sayisi, u, ts) ==
    LET h == HasatInsert(db.hasat, f, hasat_miktari, kutu_sayisi,
                         palet_sayisi, u, ts)
        hasat_id == Len(h)
    IN  [db EXCEPT !.stok = s,
                   !.hasat = h,
                   !.faturalar = IF f.teslim_edilen # ""
                                 THEN FaturaInsert(@, hasat_id, f,
                                                   hasat_miktari, u, ts)
                                 ELSE @]

\* The POST branch of hasat(): the set of possible outcomes
HasatHandler(db, f, u, ts) ==
    IF ~IsNum(f.hasat_miktari) \/ ~IsNumOr0(f.kutu_sayisi)
       \/ ~IsNumOr0(f.palet_sayisi)
    THEN {Outcome(db, <<"sayisal">>, <<>>)}
    ELSE LET hasat_miktari == Float(f.hasat_miktari)
             kutu_sayisi == FloatOr0(f.kutu_sayisi)
             palet_sayisi == FloatOr0(f.palet_sayisi)
         IN  IF f.parsil_alan = "" \/ f.hasat_eden = "" \/ f.hasat_tarihi = ""
             THEN {Outcome(db, <<"zorunlu">>, <<>>)}
             ELSE LET deductions ==
                          HasatDeductions(f, kutu_sayisi, palet_sayisi)
                  IN  IF deductions = <<>>
                      THEN {Outcome(Commit(db, HasatInserts(
                                        db, db.stok, f, hasat_miktari,
                                        kutu_sayisi, palet_sayisi, u, ts)),
                                    <<"success">>, <<>>)}
                      ELSE {IF b.ok
                            THEN Outcome(Commit(db, HasatInserts(
                                             db, b.stok, f, hasat_miktari,
                                             kutu_sayisi, palet_sayisi,
                                             u, ts)),
                                         <<"success">>, <<b>>)
                            ELSE Outcome(Rollback(db, [db EXCEPT
                                                         !.stok = b.stok]),
                                         <<"Stok yetersiz">>, <<b>>)
                            : b \in batch_deduct_stock(db.stok, deductions,
                                                       u, ts)}

----------------------------------------------------------------------------
(* POST /sulama *)

SulamaInsert(t, tarih, sera_adi, personel, e, miktar, gubre_miktari, u, ts) ==
    LET audit_fields == add_audit_fields_for_create(u, ts)
    IN  Append(t, [tarih |-> tarih, saat |-> e.saat, sera_adi |-> sera_adi,
                   sulama_turu |-> e.sulama_turu, miktar |-> miktar,
                   gubre_kimyasal |-> e.gubre_kimyasal,
                   gubre_miktari |-> gubre_miktari, personel |-> personel,
                   created_by |-> audit_fields.created_by,
                   modified_by |-> audit_fields.modified_by,
                   modified_at |-> audit_fields.modified_at])

\* The deductions one irrigation entry asks for
SulamaDeductions(e, gubre_miktari, desc) ==
    IF gubre_miktari > 0 /\ e.gubre_kimyasal # ""
    THEN IF e.sulama_turu = "Gubreli"
         THEN <<Deduction("Gubre", gubre_miktari, desc)>>
         ELSE IF e.sulama_turu = "Ilacli"
         THEN <<Deduction("Pestisit", gubre_miktari, desc),
                Deduction("Kimyasal", gubre_miktari, desc)>>
         ELSE <<>>
    ELSE <<>>

\* sulama() from "if not sera_adi or not personel ..." on, run on the values
\* tarih, sera_adi, personel, miktar, gubre_miktari and the entry e.  flash
\* and calls are what the request has flashed and called before this point.
SulamaSingle(db, tarih, sera_adi, personel, e, miktar, gubre_miktari, flash, calls, u, ts) ==
    IF sera_adi = "" \/ personel = "" \/ tarih = "" \/ miktar <= 0
    THEN {Outcome(db, Append(flash, "zorunlu"), calls)}
    ELSE LET deductions ==
                 SulamaDeductions(e, gubre_miktari,
                     <<"Sulama kullanimi - ", tarih, " - ", sera_adi>>)
         IN  IF deductions = <<>>
             THEN {Outcome(Commit(db, [db EXCEPT !.sulama =
                                SulamaInsert(@, tarih, sera_adi, personel, e,
                                             miktar, gubre_miktari, u, ts)]),
                           Append(flash, "success"), calls)}
             ELSE {IF b.ok
                   THEN Outcome(Commit(db, [db EXCEPT
                                   !.stok = b.stok,
                                   !.sulama = SulamaInsert(
                                       @, tarih, sera_adi, personel, e,
                                       miktar, gubre_miktari, u, ts)]),
                                Append(flash, "success"), Append(calls, b))
                   ELSE Outcome(Rollback(db, [db EXCEPT !.stok = b.stok]),
                                Append(flash, "Stok yetersiz"),
                                Append(calls, b))
                   : b \in batch_deduct_stock(db.stok, deductions, u, ts)}

\* "if saat and sulama_turu and miktar > 0" of the bulk loops
BulkValid(e) ==
    e.saat # "" /\ e.sulama_turu # "" /\ FloatOr0(e.miktar) > 0

\* total_deductions of the bulk form's first loop
RECURSIVE BulkDeductions(_, _, _)
BulkDeductions(es, tarih, sera_adi) ==
    IF es = <<>>
    THEN <<>>
    ELSE LET e == Head(es)
         IN  (IF BulkValid(e)
              THEN SulamaDeductions(e, FloatOr0(e.gubre_miktari),
                       <<"Sulama kullanimi - ", tarih, " ", e.saat, " - ",
                         sera_adi>>)
              ELSE <<>>)
             \o BulkDeductions(Tail(es), tarih, sera_adi)

\* The bulk form's second loop: one INSERT per valid entry
RECURSIVE BulkInsert(_, _, _, _, _, _, _)
BulkInsert(t, es, tarih, sera_adi, personel, u, ts) ==
    IF es = <<>>
    THEN t
    ELSE LET e == Head(es)
         IN  BulkInsert(IF BulkValid(e)
                        THEN SulamaInsert(t, tarih, sera_adi, personel, e,
                                          FloatOr0(e.miktar),
                                          FloatOr0(e.gubre_miktari), u, ts)
                        ELSE t,
                        Tail(es), tarih, sera_adi, personel, u, ts)

\* Where the bulk branch leaves the function without returning: control
\* reaches "if not sera_adi or not personel ..." with saat, sulama_turu,
\* miktar, gubre_kimyasal and gubre_miktari still bound to the last entry
\* the first loop read (unbound, a NameError, when the form had no entry)
BulkFallThrough(db, f, flash, calls, u, ts) ==
    IF f.sera_adi = "" \/ f.personel = "" \/ f.tarih = ""
    THEN {Outcome(db, Append(flash, "zorunlu"), calls)}
    ELSE IF f.entries = <<>>
    THEN {Outcome(db, Append(flash, "hata"), calls)}
    ELSE LET e == f.entries[Len(f.entries)]
         IN  SulamaSingle(db, f.tarih, f.sera_adi, f.personel, e,
                          FloatOr0(e.miktar), FloatOr0(e.gubre_miktari),
                          flash, calls, u, ts)

SulamaBulk(db, f, u, ts) ==
    IF \E i \in DOMAIN f.entries :
           ~IsNumOr0(f.entries[i].miktar)
           \/ ~IsNumOr0(f.entries[i].gubre_miktari)
    THEN {Outcome(db, <<"sayisal">>, <<>>)}
    ELSE LET entries_processed ==
                 Cardinality({i \in DOMAIN f.entries : BulkValid(f.entries[i])})
             total_deductions ==
                 BulkDeductions(f.entries, f.tarih, f.sera_adi)
             inserted(s) ==
                 [db EXCEPT !.stok = s,
                            !.sulama = BulkInsert(@, f.entries, f.tarih,
                                                  f.sera_adi, f.personel,
                                                  u, ts)]
         IN  IF entries_processed = 0
             THEN BulkFallThrough(db, f, <<"gecerli kayit yok">>, <<>>, u, ts)
             ELSE IF total_deductions = <<>>
             THEN {Outcome(Commit(db, inserted(db.stok)), <<"success">>,
                           <<>>)}
             ELSE UNION {IF b.ok
                         THEN {Outcome(Commit(db, inserted(b.stok)),
                                       <<"success">>, <<b>>)}
                         ELSE BulkFallThrough(
                                  Rollback(db, [db EXCEPT !.stok = b.stok]),
                                  f, <<"Stok yetersiz">>, <<b>>, u, ts)
                         : b \in batch_deduct_stock(db.stok, total_deductions,
                                                    u, ts)}

\* The POST branch of sulama(): the set of possible outcomes
SulamaHandler(db, f, u, ts) ==
    IF f.bulk_entry
    THEN SulamaBulk(db, f, u, ts)
    ELSE LET e == f.entries[1]
         IN  IF ~IsNum(e.miktar) \/ ~IsNumOr0(e.gubre_miktari)
             THEN {Outcome(db, <<"sayisal">>, <<>>)}
             ELSE SulamaSingle(db, f.tarih, f.sera_adi, f.personel, e,
                               Float(e.miktar), FloatOr0(e.gubre_miktari),
                               <<>>, <<>>, u, ts)

----------------------------------------------------------------------------
(* The forms the requests are drawn from *)

\* The user who entered the starting inventory, and the user whose session
\* sends the requests
StockKeeper == "admin"

SessionUser == "ali"

StokForm(malzeme_adi, kategori, miktar, islem_turu, notlar) ==
    [malzeme_adi |-> malzeme_adi, kategori |-> kategori, miktar |-> miktar,
     depo |-> "Depo", notlar |-> notlar, islem_turu |-> islem_turu]

StokForms ==
    {StokForm("NPK", "Gubre", m, t, "") : m \in {"-1", "2"},
                                          t \in {"ekle", "cikar"}}
    \cup {StokForm("Kompost", "Gubre", "1", "cikar", "iade"),
          StokForm("", "Gubre", "1", "ekle", ""),
          StokForm("NPK", "Gubre", "abc", "ekle", "")}

GubrelemeForm(sera_adi, gubre_miktari) ==
    [tarih |-> "2024-03-01", sera_adi |-> sera_adi, gubre_adi |-> "NPK",
     gubre_miktari |-> gubre_miktari, personel |-> "Veli"]

GubrelemeForms ==
    {GubrelemeForm("Sera1", m) : m \in {"0", "2", "4", "abc"}}
    \cup {GubrelemeForm("", "2")}

HasatForm(parsil_alan, hasat_miktari, teslim_edilen, kutu_sayisi, palet_sayisi) ==
    [hasat_tarihi |-> "2024-03-01", parsil_alan |-> parsil_alan,
     hasat_miktari |-> hasat_miktari, hasat_eden |-> "Veli",
     teslim_edilen |-> teslim_edilen, kutu_sayisi |-> kutu_sayisi,
     palet_sayisi |-> palet_sayisi]

HasatForms ==
    {HasatForm("P1", "3", t, kp[1], kp[2]) :
         t \in {"", "Firma"}, kp \in {<<"", "">>, <<"2", "">>, <<"2", "2">>}}
    \cup {HasatForm("", "3", "", "2", ""),
          HasatForm("P1", "abc", "", "2", "")}

Entry(saat, sulama_turu, miktar, gubre_kimyasal, gubre_miktari) ==
    [saat |-> saat, sulama_turu |-> sulama_turu, miktar |-> miktar,
     gubre_kimyasal |-> gubre_kimyasal, gubre_miktari |-> gubre_miktari]

\* The entries the irrigation forms are built from
Normal == Entry("08:00", "Normal", "1", "", "")

NoSaat == Entry("", "Normal", "1", "", "")

NoMiktar == Entry("08:00", "Normal", "0", "", "")

NotNumber == Entry("08:00", "Normal", "abc", "", "")

Gubreli2 == Entry("09:00", "Gubreli", "1", "NPK", "2")

Gubreli4 == Entry("09:00", "Gubreli", "1", "NPK", "4")

Gubreli4Unnamed == Entry("09:00", "Gubreli", "1", "", "4")

Ilacli2 == Entry("10:00", "Ilacli", "1", "Ilac", "2")

Entries ==
    {Normal, NoSaat, NoMiktar, NotNumber, Gubreli2, Gubreli4, Gubreli4Unnamed,
     Ilacli2}

\* The entry lists (saat_1 ..., saat_2 ...) of the bulk forms
BulkEntryLists ==
    {<<>>, <<Normal>>, <<NoSaat>>, <<NoMiktar>>, <<NotNumber>>, <<Gubreli2>>,
     <<Gubreli4>>, <<Ilacli2>>, <<Gubreli4, Normal>>, <<Normal, Gubreli4>>,
     <<Gubreli2, Ilacli2>>, <<Gubreli2, Gubreli2>>, <<Gubreli4, Ilacli2>>,
     <<NoSaat, Gubreli4Unnamed>>}

SulamaForm(bulk_entry, sera_adi, entries) ==
    [bulk_entry |-> bulk_entry, tarih |-> "2024-03-01", sera_adi |-> sera_adi,
     personel |-> "Veli", entries |-> entries]

SulamaForms ==
    {SulamaForm(FALSE, "Sera1", <<e>>) : e \in Entries}
    \cup {SulamaForm(FALSE, "", <<Normal>>)}
    \cup {SulamaForm(TRUE, "Sera1", es) : es \in BulkEntryLists}

----------------------------------------------------------------------------
(* The inventories a behaviour starts from: each is what POST /stok requests
   of the stock keeper leave in an empty database *)

RECURSIVE Stocked(_)
Stocked(script) ==
    IF script = <<>>
    THEN <<>>
    ELSE LET step == script[Len(script)]
             before == [stok |-> Stocked(SubSeq(script, 1, Len(script) - 1))]
         IN  (CHOOSE o \in StokHandler(before, step.form, StockKeeper, step.day)
                  : TRUE).db.stok

Stocking(malzeme_adi, kategori, miktar, day) ==
    [form |-> StokForm(malzeme_adi, kategori, miktar, "ekle", ""),
     day |-> day]

StockScripts ==
    {<<>>,
     <<Stocking("NPK", "Gubre", "1", 1), Stocking("Kasa", "Kutu", "2", 1),
       Stocking("Palet", "Palet", "1", 1), Stocking("Ilac", "Pestisit", "2", 1),
       Stocking("Asit", "Kimyasal", "1", 1), Stocking("Ure", "Gubre", "3", 2),
       Stocking("Potas", "Gubre", "3", 3)>>,
     <<Stocking("NPK", "Gubre", "2", 1), Stocking("Ure", "Gubre", "2", 1),
       Stocking("Kasa", "Kutu", "2", 1), Stocking("Palet", "Palet", "2", 2),
       Stocking("Ilac", "Pestisit", "2", 2),
       Stocking("Asit", "Kimyasal", "2", 2)>>}

\* The day the behaviour starts on: the day of the last stocking
FirstDay ==
    CHOOSE d \in 1..MaxDay :
        /\ \A script \in StockScripts :
               \A k \in DOMAIN script : script[k].day <= d
        /\ \E script \in StockScripts :
               \E k \in DOMAIN script : script[k].day = d

----------------------------------------------------------------------------
(* The state machine *)

\* The worker threads that serve requests at the same time
Clients == {"t1", "t2"}

\* A thread that is serving no request
NoConnection ==
    [pc |-> "idle", form |-> <<>>, miktar |-> 0, item |-> [id |-> 0, miktar |-> 0],
     work |-> <<>>, flash |-> <<>>, kayit |-> 0]

\* User(kullanici_adi, rol) with set_password(password); aktif defaults to True
User(kullanici_adi, rol, password) ==
    [kullanici_adi |-> kullanici_adi, rol |-> rol, aktif |-> TRUE,
     password |-> password, son_giris |-> 0]

\* The accounts a behaviour starts with: the default admin created at start-up
\* and the account of the session user, added by the admin
FirstUsers ==
    <<User(StockKeeper, "admin", "admin123"),
      User(SessionUser, "kullanici", "sifre")>>

NoRequest ==
    [op |-> "none", form |-> <<>>, flash |-> <<>>, calls |-> <<>>,
     pre |-> [stok |-> <<>>, sulama |-> <<>>, gubreleme |-> <<>>,
              hasat |-> <<>>, faturalar |-> <<>>]]

Init ==
    /\ stok \in {Stocked(script) : script \in StockScripts}
    /\ sulama = <<>>
    /\ gubreleme = <<>>
    /\ hasat = <<>>
    /\ faturalar = <<>>
    /\ now = FirstDay
    /\ user = SessionUser
    /\ nreq = 0
    /\ last = NoRequest
    /\ conns = [c \in Clients |-> NoConnection]
    /\ maliyetler = <<>>
    /\ kar_zarar = <<>>
    /\ uretim = <<>>
    /\ personeller = <<>>
    /\ gorevler = <<>>
    /\ devam = <<>>
    /\ users = FirstUsers
    /\ login_attempts = <<>>

\* One POST request, handled from its first statement to its response
Request(op, f, outcomes) ==
    /\ nreq < MaxReq
    /\ \E o \in outcomes :
          /\ stok' = o.db.stok
          /\ sulama' = o.db.sulama
          /\ gubreleme' = o.db.gubreleme
          /\ hasat' = o.db.hasat
          /\ faturalar' = o.db.faturalar
          /\ last' = [op |-> op, form |-> f, flash |-> o.flash,
                      calls |-> o.calls, pre |-> Tables]
    /\ nreq' = nreq + 1
    /\ UNCHANGED <<now, user, others>>

Stok == \E f \in StokForms : Request("stok", f, StokHandler(Tables, f, user, now))

Gubreleme ==
    \E f \in GubrelemeForms :
        Request("gubreleme", f, GubrelemeHandler(Tables, f, user, now))

Hasat ==
    \E f \in HasatForms : Request("hasat", f, HasatHandler(Tables, f, user, now))

Sulama ==
    \E f \in SulamaForms :
        Request("sulama", f, SulamaHandler(Tables, f, user, now))

\* The clock: the next day begins
Tick ==
    /\ now < MaxDay
    /\ now' = now + 1
    /\ UNCHANGED <<stok, sulama, gubreleme, hasat, faturalar, user, nreq, last,
                   others>>

Next == Stok \/ Gubreleme \/ Hasat \/ Sulama \/ Tick

Spec == Init /\ [][Next]_vars

----------------------------------------------------------------------------
(* What the claims are stated over *)

\* The batch_deduct_stock calls of the last request
BatchCalls == {last.calls[c] : c \in DOMAIN last.calls}

\* The deduct_stock_item calls of the last request
DeductCalls ==
    UNION {{b.results[k] : k \in DOMAIN b.results} : b \in BatchCalls}

\* The rows of a category in a stok table
RowsOf(s, kategori) == {i \in DOMAIN s : s[i].kategori = kategori}

RECURSIVE SumMiktar(_, _)
SumMiktar(s, I) ==
    IF I = {}
    THEN 0
    ELSE LET i == CHOOSE x \in I : TRUE
         IN  s[i].miktar + SumMiktar(s, I \ {i})

\* The total quantity of a category
Total(s, kategori) == SumMiktar(s, RowsOf(s, kategori))

\* The rows of a table that a call changed
Changed(pre, post) == {i \in DOMAIN pre : post[i] # pre[i]}

Miktarlar(s) == [i \in DOMAIN s |-> s[i].miktar]

Flashed(m) == \E k \in DOMAIN last.flash : last.flash[k] = m

----------------------------------------------------------------------------
(* C1: after any sequence of committed requests every row of stok has     *)
(* miktar >= 0.  POST /stok accepts a negative miktar, so this fails.     *)
C1_MiktarNonNegative ==
    \A i \in DOMAIN stok : stok[i].miktar >= 0

(* C2: deduct_stock_item(kategori, q) with q > 0 succeeds if and only if  *)
(* one single row of the category holds at least q; quantities of several *)
(* rows are never combined.                                                *)
C2_SuccessIffSingleRowSuffices ==
    \A r \in DeductCalls :
        r.miktar > 0 =>
            (r.ok <=> \E i \in RowsOf(r.pre, r.kategori) :
                          r.pre[i].miktar >= r.miktar)

\* a deduction failed although the rows of its category sum to the amount
C2_Witness ==
    \E r \in DeductCalls :
        /\ r.miktar > 0
        /\ ~r.ok
        /\ Cardinality(RowsOf(r.pre, r.kategori)) >= 2
        /\ Total(r.pre, r.kategori) >= r.miktar

(* C3: the row a successful deduct_stock_item decrements has, among the   *)
(* rows of the category holding at least the requested amount, the        *)
(* earliest tarih; an older row that holds too little does not block it.  *)
C3_EarliestSufficientRow ==
    \A r \in DeductCalls :
        r.ok =>
            /\ Changed(r.pre, r.stok) # {}
            /\ \A i \in Changed(r.pre, r.stok) :
                  /\ r.pre[i].kategori = r.kategori
                  /\ r.pre[i].miktar >= r.miktar
                  /\ r.stok[i].miktar < r.pre[i].miktar
                  /\ \A j \in RowsOf(r.pre, r.kategori) :
                         r.pre[j].miktar >= r.miktar =>
                             r.pre[i].tarih <= r.pre[j].tarih

\* a deduction passed over an older row of the category that held too little
\* and over a younger one that held enough
C3_Witness ==
    \E r \in DeductCalls :
        /\ r.ok
        /\ \E i \in Changed(r.pre, r.stok) :
              /\ \E j \in RowsOf(r.pre, r.kategori) :
                     /\ r.pre[j].tarih < r.pre[i].tarih
                     /\ r.pre[j].miktar < r.miktar
              /\ \E j \in RowsOf(r.pre, r.kategori) :
                     /\ r.pre[j].tarih > r.pre[i].tarih
                     /\ r.pre[j].miktar >= r.miktar

(* C4: a successful deduct_stock_item(kategori, q) takes exactly q from   *)
(* one row, so the category's total falls by exactly q, and leaves the    *)
(* quantity of every other row, of any category, as it was.               *)
C4_ExactlyOneRowLessQ ==
    \A r \in DeductCalls :
        r.ok =>
            /\ DOMAIN r.stok = DOMAIN r.pre
            /\ \E i \in RowsOf(r.pre, r.kategori) :
                  /\ r.stok[i].miktar = r.pre[i].miktar - r.miktar
                  /\ \A j \in DOMAIN r.pre \ {i} : r.stok[j] = r.pre[j]
            /\ Total(r.stok, r.kategori) = Total(r.pre, r.kategori) - r.miktar

\* a deduction succeeded in a category of several rows, next to other
\* categories
C4_Witness ==
    \E r \in DeductCalls :
        /\ r.ok
        /\ Cardinality(RowsOf(r.pre, r.kategori)) >= 2
        /\ RowsOf(r.pre, r.kategori) # DOMAIN r.pre

(* C5: a deduct_stock_item that fails for want of a sufficient row writes *)
(* nothing: quantity, notes and audit fields of every row are as before.  *)
C5_FailureWritesNothing ==
    \A r \in DeductCalls : ~r.ok => r.stok = r.pre

\* a deduction failed in a category that has rows
C5_Witness ==
    \E r \in DeductCalls : ~r.ok /\ RowsOf(r.pre, r.kategori) # {}

(* C6: an irrigation request, single or bulk, with an entry of type      *)
(* Gubreli whose chemical amount exceeds what any Gubre row holds commits *)
(* no sulama record and leaves every stok quantity as it was.  The bulk   *)
(* branch falls through into the single-entry code after its rollback,    *)
(* and an entry without gubre_kimyasal is never deducted, so this fails.  *)
C6_GubreliOverStockCommitsNothing ==
    (/\ last.op = "sulama"
     /\ \E k \in DOMAIN last.form.entries :
           LET e == last.form.entries[k]
           IN  /\ e.sulama_turu = "Gubreli"
               /\ IsNumOr0(e.gubre_miktari)
               /\ \A i \in RowsOf(last.pre.stok, "Gubre") :
                      FloatOr0(e.gubre_miktari) > last.pre.stok[i].miktar)
    => /\ sulama = last.pre.sulama
       /\ Miktarlar(stok) = Miktarlar(last.pre.stok)

\* The deductions of a batch that batch_deduct_stock attempts at all
Positive(ds) == SelectSeq(ds, LAMBDA d : d.miktar > 0)

(* C7: batch_deduct_stock applies the deductions in list order and stops  *)
(* at the first that fails: nothing after it is attempted, the flag is    *)
(* False and the failure is the last result; the flag is True only when   *)
(* every attempted deduction succeeded.                                    *)
C7_StopsAtFirstFailure ==
    \A b \in BatchCalls :
        LET pos == Positive(b.deductions)
            n == Len(b.results)
        IN  /\ n <= Len(pos)
            /\ \A k \in 1..n :
                  /\ b.results[k].kategori = pos[k].kategori
                  /\ b.results[k].miktar = pos[k].miktar
                  /\ b.results[k].pre =
                         (IF k = 1 THEN b.pre ELSE b.results[k - 1].stok)
                  /\ k < n => b.results[k].ok
            /\ b.stok = (IF n = 0 THEN b.pre ELSE b.results[n].stok)
            /\ b.ok <=> \A k \in 1..n : b.results[k].ok
            /\ b.ok => n = Len(pos)
            /\ ~b.ok => n >= 1 /\ ~b.results[n].ok

\* a batch stopped at a failure with deductions still to come
C7_Witness ==
    \E b \in BatchCalls :
        /\ ~b.ok
        /\ Len(b.results) < Len(Positive(b.deductions))

RECURSIVE SumApplied(_, _)
SumApplied(results, kategori) ==
    IF results = <<>>
    THEN 0
    ELSE (IF Head(results).ok /\ Head(results).kategori = kategori
          THEN Head(results).miktar ELSE 0)
         + SumApplied(Tail(results), kategori)

(* C8: when a deduction of a batch fails, batch_deduct_stock does not     *)
(* undo the deductions the batch applied before it: on return the rows    *)
(* hold the decremented quantities in the caller's transaction, and the   *)
(* caller's rollback is what restores them.                                *)
C8_HelperDoesNotUndo ==
    \A b \in BatchCalls :
        ~b.ok =>
            /\ \A i \in DOMAIN b.pre :
                  Total(b.stok, b.pre[i].kategori) =
                      Total(b.pre, b.pre[i].kategori)
                      - SumApplied(b.results, b.pre[i].kategori)
            /\ \A k \in DOMAIN b.results :
                  b.results[k].ok =>
                      b.stok[b.results[k].id].miktar
                          < b.pre[b.results[k].id].miktar
            /\ ~Flashed("success") => stok = b.pre

\* a batch failed after an earlier deduction of it had been applied, and
\* the request rolled that deduction back
C8_Witness ==
    \E b \in BatchCalls :
        /\ ~b.ok
        /\ Len(b.results) >= 2
        /\ b.stok # b.pre
        /\ stok = b.pre

(* C9: a harvest or fertilization request rejected for insufficient stock *)
(* rolls the whole transaction back: no hasat, faturalar or gubreleme     *)
(* record is committed and every stok row, those an earlier deduction of  *)
(* the batch decremented included, has its quantity and notes of before.  *)
C9_RejectionRollsBack ==
    (last.op \in {"hasat", "gubreleme"} /\ Flashed("Stok yetersiz"))
    => Tables = last.pre

\* a harvest was rejected on its pallets after its boxes had been deducted
C9_Witness ==
    /\ last.op = "hasat"
    /\ Flashed("Stok yetersiz")
    /\ \E b \in BatchCalls :
          /\ Len(b.results) = 2
          /\ b.results[1].ok /\ b.results[1].kategori = "Kutu"
          /\ ~b.results[2].ok /\ b.results[2].kategori = "Palet"

(* C10: a request that fails input validation (a required field missing,  *)
(* a value that is not a number, a bulk irrigation form without a valid   *)
(* entry) changes no table.  The bulk form without a valid entry flashes  *)
(* its error and carries on into the single-entry code, so this fails.    *)
C10_ValidationFailureChangesNothing ==
    (Flashed("sayisal") \/ Flashed("zorunlu") \/ Flashed("gecerli kayit yok"))
    => Tables = last.pre

----------------------------------------------------------------------------
(* The deduction helpers called on their own: a caller passes them any    *)
(* category and quantity, non-positive quantities included, on a          *)
(* connection of its own and commits what they wrote.                     *)

HelperDesc == <<"islem">>

HelperQuantities == {0 - 1, 0, 1, 2, 4}

HelperCategories == {"Gubre", "Kutu"}

HelperBatches ==
    {<<>>,
     <<Deduction("Kutu", 0, HelperDesc)>>,
     <<Deduction("Gubre", 0, HelperDesc), Deduction("Gubre", 2, HelperDesc)>>,
     <<Deduction("Gubre", 0 - 1, HelperDesc), Deduction("Kutu", 1, HelperDesc)>>,
     <<Deduction("Gubre", 2, HelperDesc), Deduction("Kutu", 0, HelperDesc),
       Deduction("Gubre", 2, HelperDesc)>>,
     <<Deduction("Gubre", 2, HelperDesc), Deduction("Gubre", 1, HelperDesc)>>,
     <<Deduction("Gubre", 4, HelperDesc), Deduction("Kutu", 0 - 1, HelperDesc)>>,
     <<Deduction("Kutu", 0, HelperDesc), Deduction("Gubre", 4, HelperDesc),
       Deduction("Kutu", 1, HelperDesc)>>}

\* success, message = deduct_stock_item(conn, kategori, miktar, desc), then
\* conn.commit()
CallDeduct ==
    /\ nreq < MaxReq
    /\ \E kategori \in HelperCategories, miktar \in HelperQuantities :
          \E r \in deduct_stock_item(stok, kategori, miktar, HelperDesc,
                                     user, now) :
              /\ stok' = r.stok
              /\ last' = [op |-> "deduct_stock_item",
                          form |-> Deduction(kategori, miktar, HelperDesc),
                          flash |-> <<>>, calls |-> <<>>, pre |-> Tables,
                          result |-> r]
    /\ nreq' = nreq + 1
    /\ UNCHANGED <<sulama, gubreleme, hasat, faturalar, now, user, others>>

\* success, results = batch_deduct_stock(conn, deductions), then conn.commit()
CallBatch ==
    /\ nreq < MaxReq
    /\ \E ds \in HelperBatches :
          \E b \in batch_deduct_stock(stok, ds, user, now) :
              /\ stok' = b.stok
              /\ last' = [op |-> "batch_deduct_stock", form |-> ds,
                          flash |-> <<>>, calls |-> <<b>>, pre |-> Tables]
    /\ nreq' = nreq + 1
    /\ UNCHANGED <<sulama, gubreleme, hasat, faturalar, now, user, others>>

HelperNext == CallDeduct \/ CallBatch \/ Tick

HelperSpec == Init /\ [][HelperNext]_vars

\* The quantity the successful results of a batch took from row i
RECURSIVE TakenFrom(_, _)
TakenFrom(results, i) ==
    IF results = <<>>
    THEN 0
    ELSE (IF Head(results).ok /\ Head(results).id = i
          THEN Head(results).miktar ELSE 0)
         + TakenFrom(Tail(results), i)

NonPositive(ds) == {k \in DOMAIN ds : ds[k].miktar <= 0}

(* C11: batch_deduct_stock skips an entry whose quantity is zero or       *)
(* negative: the entry adds no result, changes no row (every row holds    *)
(* what it held less what the results took from it, and rows no result    *)
(* names are untouched), never is the failure of the batch, and the       *)
(* positive entries after it are processed as if it were not there.       *)
C11_NonPositiveEntrySkipped ==
    \A b \in BatchCalls :
        NonPositive(b.deductions) # {} =>
            LET pos == Positive(b.deductions)
                n == Len(b.results)
            IN  /\ \A k \in 1..n : b.results[k].miktar > 0
                /\ n <= Len(pos)
                /\ \A k \in 1..n :
                      /\ b.results[k].kategori = pos[k].kategori
                      /\ b.results[k].miktar = pos[k].miktar
                /\ \A i \in DOMAIN b.pre :
                      /\ b.stok[i].miktar =
                             b.pre[i].miktar - TakenFrom(b.results, i)
                      /\ (\A k \in 1..n : b.results[k].id # i)
                             => b.stok[i] = b.pre[i]
                /\ pos = <<>> => b.ok /\ b.stok = b.pre
                /\ n = Len(pos) \/ (n >= 1 /\ ~b.results[n].ok)
                /\ b.ok <=> \A k \in 1..n : b.results[k].ok

\* a batch skipped a non-positive entry and deducted the entry after it
C11_Witness ==
    \E b \in BatchCalls :
        \E j \in DOMAIN b.deductions, k \in DOMAIN b.deductions :
            /\ j < k
            /\ b.deductions[j].miktar <= 0
            /\ b.deductions[k].miktar > 0
            /\ b.ok
            /\ Len(b.results) = Len(Positive(b.deductions))
            /\ b.stok # b.pre

(* C12: within one batch a deduction is evaluated against the rows as the *)
(* earlier deductions of that batch left them: it succeeds exactly when   *)
(* some row of its category still holds its quantity once what the        *)
(* earlier results took is subtracted.  So of two deductions q1, q2 of a  *)
(* category that only one and the same row of quantity Q can serve, with  *)
(* q1 + q2 > Q, the first succeeds and the second fails, and the batch    *)
(* takes from no row more than the row held.                              *)
C12_BatchSeesEarlierDeductions ==
    \A b \in BatchCalls :
        LET n == Len(b.results)
            Q(i, k) == b.pre[i].miktar
                       - TakenFrom(SubSeq(b.results, 1, k - 1), i)
        IN  /\ \A k \in 1..n :
                  b.results[k].ok <=>
                      \E i \in RowsOf(b.pre, b.results[k].kategori) :
                          Q(i, k) >= b.results[k].miktar
            /\ \A j \in 1..n, k \in 1..n :
                  (/\ j < k
                   /\ b.results[j].kategori = b.results[k].kategori
                   /\ \E i \in DOMAIN b.pre :
                         /\ Sufficient(b.results[j].pre, b.results[j].kategori,
                                       b.results[j].miktar) = {i}
                         /\ Sufficient(b.results[j].pre, b.results[k].kategori,
                                       b.results[k].miktar) = {i}
                         /\ b.results[j].miktar + b.results[k].miktar
                                > b.results[j].pre[i].miktar)
                  => b.results[j].ok /\ ~b.results[k].ok
            /\ \A i \in DOMAIN b.pre :
                  TakenFrom(b.results, i) > 0
                      => TakenFrom(b.results, i) <= b.pre[i].miktar

\* a batch asked one row twice for more than it held in all: the first
\* deduction was applied and the second refused
C12_Witness ==
    \E b \in BatchCalls :
        \E j \in DOMAIN b.results, k \in DOMAIN b.results :
            /\ j < k
            /\ b.results[j].kategori = b.results[k].kategori
            /\ \E i \in DOMAIN b.pre :
                  /\ Sufficient(b.results[j].pre, b.results[j].kategori,
                                b.results[j].miktar) = {i}
                  /\ Sufficient(b.results[j].pre, b.results[k].kategori,
                                b.results[k].miktar) = {i}
                  /\ b.results[j].miktar + b.results[k].miktar
                         > b.results[j].pre[i].miktar
            /\ b.results[j].ok
            /\ ~b.results[k].ok

----------------------------------------------------------------------------
(* Requests served at the same time.  Each thread opens a connection of  *)
(* its own (get_db_connection) and runs POST /gubreleme on it, statement  *)
(* by statement.  The SELECT of deduct_stock_item runs outside any        *)
(* transaction and sees the committed rows.  The UPDATE begins the        *)
(* connection's transaction and takes the database write lock, which the  *)
(* connection keeps until its commit; while another connection holds it   *)
(* the UPDATE waits, and either goes on once the lock is free or gives up *)
(* when sqlite's busy timeout expires ("database is locked").             *)

ConcForms == {GubrelemeForm("Sera1", m) : m \in {"1", "2", "3"}}

GubrelemeDesc(f) == <<"Gubreleme - ", f.tarih, " - ", f.sera_adi>>

\* A connection holds the write lock from its UPDATE to its commit
WriteLocked == \E c \in Clients : conns[c].pc = "updated"

\* The request arrives, its form is valid, and deduct_stock_item runs its
\* SELECT; without a sufficient row the request is rejected at once
ConcSelect(c) ==
    /\ nreq < MaxReq
    /\ conns[c].pc \in {"idle", "done"}
    /\ \E f \in ConcForms :
          LET gubre_miktari == Float(f.gubre_miktari)
              C == Sufficient(stok, "Gubre", gubre_miktari)
          IN  IF C = {}
              THEN conns' = [conns EXCEPT ![c] =
                      [pc |-> "done", form |-> f, miktar |-> gubre_miktari,
                       item |-> [id |-> 0, miktar |-> 0], work |-> <<>>,
                       flash |-> <<"Stok yetersiz">>, kayit |-> 0]]
              ELSE \E i \in OrderByTarihLimit1(stok, C) :
                      conns' = [conns EXCEPT ![c] =
                          [pc |-> "selected", form |-> f,
                           miktar |-> gubre_miktari,
                           item |-> [id |-> i, miktar |-> stok[i].miktar],
                           work |-> <<>>, flash |-> <<>>, kayit |-> 0]]
    /\ nreq' = nreq + 1
    /\ UNCHANGED <<stok, sulama, gubreleme, hasat, faturalar, now, user, last,
                   maliyetler, kar_zarar, uretim, personeller, gorevler, devam,
                   users, login_attempts>>

\* The UPDATE of deduct_stock_item, once no other connection holds the lock
ConcUpdate(c) ==
    /\ conns[c].pc = "selected"
    /\ ~WriteLocked
    /\ LET i == conns[c].item.id
       IN  conns' = [conns EXCEPT
               ![c].pc = "updated",
               ![c].work = [stok EXCEPT ![i] =
                   StaleUpdate(stok[i], conns[c].item, conns[c].miktar,
                               GubrelemeDesc(conns[c].form), user, now)]]
    /\ UNCHANGED <<stok, sulama, gubreleme, hasat, faturalar, now, user, nreq,
                   last, maliyetler, kar_zarar, uretim, personeller, gorevler,
                   devam, users, login_attempts>>

\* The UPDATE gives up waiting for the lock: deduct_stock_item catches the
\* OperationalError and returns False, the handler rolls back and flashes
ConcBusy(c) ==
    /\ conns[c].pc = "selected"
    /\ WriteLocked
    /\ conns' = [conns EXCEPT ![c].pc = "done",
                              ![c].flash = <<"Stok yetersiz">>]
    /\ UNCHANGED <<stok, sulama, gubreleme, hasat, faturalar, now, user, nreq,
                   last, maliyetler, kar_zarar, uretim, personeller, gorevler,
                   devam, users, login_attempts>>

\* INSERT INTO gubreleme, conn.commit() and the success flash
ConcFinish(c) ==
    /\ conns[c].pc = "updated"
    /\ stok' = conns[c].work
    /\ gubreleme' = GubrelemeInsert(gubreleme, conns[c].form, conns[c].miktar,
                                    user, now)
    /\ conns' = [conns EXCEPT ![c].pc = "done",
                              ![c].work = <<>>,
                              ![c].flash = <<"success">>,
                              ![c].kayit = Len(gubreleme) + 1]
    /\ UNCHANGED <<sulama, hasat, faturalar, now, user, nreq, last, maliyetler,
                   kar_zarar, uretim, personeller, gorevler, devam, users,
                   login_attempts>>

ConcNext ==
    \/ \E c \in Clients : ConcSelect(c)
    \/ \E c \in Clients : ConcUpdate(c)
    \/ \E c \in Clients : ConcBusy(c)
    \/ \E c \in Clients : ConcFinish(c)

ConcSpec == Init /\ [][ConcNext]_vars

\* Two requests that both read row i at quantity Q and both ran to their
\* commit
BothDeducted(a, b, i, Q) ==
    /\ a # b
    /\ conns[a].pc = "done" /\ conns[a].kayit > 0
    /\ conns[b].pc = "done" /\ conns[b].kayit > 0
    /\ conns[a].item = [id |-> i, miktar |-> Q]
    /\ conns[b].item = [id |-> i, miktar |-> Q]

(* C13: two concurrent requests whose SELECTs return the same row at the  *)
(* same quantity Q both report success and both commit their record,      *)
(* and the row ends at Q less the amount of one of them only, never at Q  *)
(* less both (lost update); nothing keeps the second SELECT from running  *)
(* between the first SELECT and its UPDATE.                               *)
C13_LostUpdate ==
    \A a \in Clients, b \in Clients :
        \A i \in DOMAIN stok :
            \A Q \in {conns[a].item.miktar} :
                BothDeducted(a, b, i, Q) =>
                    /\ conns[a].flash = <<"success">>
                    /\ conns[b].flash = <<"success">>
                    /\ conns[a].kayit # conns[b].kayit
                    /\ gubreleme[conns[a].kayit].gubre_miktari = conns[a].miktar
                    /\ gubreleme[conns[b].kayit].gubre_miktari = conns[b].miktar
                    /\ stok[i].miktar \in {Q - conns[a].miktar,
                                           Q - conns[b].miktar}
                    /\ stok[i].miktar # Q - conns[a].miktar - conns[b].miktar

\* both requests committed a fertilization and the row lost one amount only
C13_Witness ==
    \E a \in Clients, b \in Clients :
        \E i \in DOMAIN stok :
            /\ BothDeducted(a, b, i, conns[a].item.miktar)
            /\ conns[a].flash = <<"success">>
            /\ conns[b].flash = <<"success">>
            /\ Len(gubreleme) = 2
            /\ stok[i].miktar = conns[a].item.miktar - conns[b].miktar
            /\ gubreleme[1].gubre_miktari + gubreleme[2].gubre_miktari
                   > conns[a].item.miktar - stok[i].miktar

C15_NonPositiveDeductIsNoOp ==
    (last.op = "deduct_stock_item" /\ last.form.miktar <= 0)
    => /\ last.result.ok
       /\ \A i \in DOMAIN stok :
             /\ stok[i].miktar = last.pre.stok[i].miktar
             /\ stok[i].notlar = last.pre.stok[i].notlar

\* The messages of the deductions of the last request that failed
Failures == {r \in DeductCalls : ~r.ok}

(* C16 as stated: the failure message names the category and the          *)
(* shortfall, the amount by which the requested quantity exceeds what the *)
(* category holds (in all its rows, or in its best row).                  *)
C16_MessageNamesShortfall ==
    \A r \in Failures :
        /\ r.message.kategori = Lower(r.kategori)
        /\ \/ r.message.gerekli = r.miktar - Total(r.pre, r.kategori)
           \/ r.message.gerekli = r.miktar - Available(r.pre, r.kategori)

(* C16: when a deduction fails for insufficient stock the returned        *)
(* message is "Yetersiz <category> stoku (gerekli: <quantity>)": it names *)
(* the category in lower case and the quantity that was requested, not    *)
(* the amount that is missing.                                            *)
C16_MessageNamesRequested ==
    \A r \in Failures :
        /\ r.message.text = "Yetersiz stoku"
        /\ r.message.kategori = Lower(r.kategori)
        /\ r.message.gerekli = r.miktar

\* a deduction failed in a category that held something, so that what was
\* requested and what was missing differ
C16_Witness ==
    \E r \in Failures :
        /\ Available(r.pre, r.kategori) > 0
        /\ r.message.gerekli = r.miktar
        /\ r.message.gerekli # r.miktar - Available(r.pre, r.kategori)
        /\ r.message.gerekli # r.miktar - Total(r.pre, r.kategori)

(* C17: a successful deduct_stock_item appends the operation description  *)
(* to the notes of the row it chose and loses none of the notes that were *)
(* there: the description alone when the notes were empty, otherwise the  *)
(* previous notes, "; " and the description.  It sets the row's           *)
(* modified_by and modified_at to the acting user and the current time    *)
(* and leaves created_by as it was.                                       *)
C17_NoteAppendedAndStamped ==
    [][nreq' = nreq + 1 =>
          \A r \in DeductCalls' :
              r.ok =>
                  LET before == r.pre[r.id]
                      after == r.stok[r.id]
                  IN  /\ after.notlar =
                             (IF before.notlar = <<>>
                              THEN r.desc
                              ELSE before.notlar \o <<"; ">> \o r.desc)
                      /\ SubSeq(after.notlar, 1, Len(before.notlar))
                             = before.notlar
                      /\ after.modified_by = user
                      /\ after.modified_at = now
                      /\ after.created_by = before.created_by]_vars

\* a deduction succeeded on a row that had notes and that somebody else had
\* created
C17_Witness ==
    \E r \in DeductCalls :
        /\ r.ok
        /\ r.pre[r.id].notlar # <<>>
        /\ r.stok[r.id].notlar = r.pre[r.id].notlar \o <<"; ">> \o r.desc
        /\ r.stok[r.id].created_by # r.stok[r.id].modified_by

----------------------------------------------------------------------------
(* Finance: POST /finans/faturalar, POST /finans/maliyetler and            *)
(* GET /finans/kar-zarar                                                   *)

\* datetime.now().strftime('%Y-%m-%d'): the days of the model are in March
Days ==
    <<"2024-03-01", "2024-03-02", "2024-03-03", "2024-03-04", "2024-03-05",
      "2024-03-06", "2024-03-07", "2024-03-08", "2024-03-09">>

Strftime(d) == Days[d]

\* datetime.now().replace(day=1).strftime('%Y-%m-%d')
MonthStart(d) == Days[1]

\* The place of a date text in the order of texts, '' before every date
DateRank(t) ==
    IF t = "" THEN 0
    ELSE IF t = "2024-02-10" THEN 1
    ELSE 1 + (CHOOSE d \in DOMAIN Days : Days[d] = t)

\* t BETWEEN lo AND hi, on text
Between(t, lo, hi) == DateRank(lo) <= DateRank(t) /\ DateRank(t) <= DateRank(hi)

\* text LIKE '%' || filter || '%', on the names of the model
Like(text, filter) ==
    \/ text = filter
    \/ filter = "Sera" /\ text \in {"Sera1", "Sera2"}

\* COALESCE(SUM(toplam_tutar), 0) over the rows I of table tbl: SUM skips NULL
RECURSIVE SumTutar(_, _)
SumTutar(tbl, I) ==
    IF I = {}
    THEN Num(0)
    ELSE LET i == CHOOSE x \in I : TRUE
         IN  IF tbl[i].toplam_tutar = Null
             THEN SumTutar(tbl, I \ {i})
             ELSE FAdd(tbl[i].toplam_tutar, SumTutar(tbl, I \ {i}))

\* COALESCE(SUM(f.miktar), 0)
RECURSIVE SumKg(_, _)
SumKg(fa, I) ==
    IF I = {}
    THEN 0
    ELSE LET i == CHOOSE x \in I : TRUE
         IN  fa[i].miktar + SumKg(fa, I \ {i})

\* What a finance handler leaves behind
FinOutcome(fa, m, kz, flash) ==
    [faturalar |-> fa, maliyetler |-> m, kar_zarar |-> kz, flash |-> flash]

\* action == 'set_price'
SetPrice(fa, m, kz, f, u, ts) ==
    IF ~IsNum(f.fatura_id) \/ ~IsReal(f.birim_fiyat)
    THEN FinOutcome(fa, m, kz, <<"gecerli fiyat girin">>)
    ELSE LET fatura_id == Float(f.fatura_id)
             birim_fiyat == Real(f.birim_fiyat)
         IN  IF fatura_id \in DOMAIN fa
             THEN LET toplam_tutar == FMul(Num(fa[fatura_id].miktar),
                                           birim_fiyat)
                      audit_fields == add_audit_fields_for_update(u, ts)
                  IN  FinOutcome(
                          [fa EXCEPT ![fatura_id] =
                              [@ EXCEPT !.birim_fiyat = Bind(birim_fiyat),
                                        !.toplam_tutar = Bind(toplam_tutar),
                                        !.durum = "Fiyatlandirildi",
                                        !.fiyat_belirleme_tarihi = ts,
                                        !.notlar = Text(f.notlar),
                                        !.modified_by =
                                            audit_fields.modified_by,
                                        !.modified_at =
                                            audit_fields.modified_at]],
                          m, kz, <<"success">>)
             ELSE FinOutcome(fa, m, kz, <<"bulunamadi">>)

\* action == 'update_status'
UpdateStatus(fa, m, kz, f, u, ts) ==
    IF ~IsNum(f.fatura_id)
    THEN FinOutcome(fa, m, kz, <<"Gecersiz fatura bilgisi">>)
    ELSE LET fatura_id == Float(f.fatura_id)
             audit_fields == add_audit_fields_for_update(u, ts)
             stamped(row) == [row EXCEPT !.durum = f.yeni_durum,
                                         !.modified_by =
                                             audit_fields.modified_by,
                                         !.modified_at =
                                             audit_fields.modified_at]
         IN  FinOutcome(
                 [i \in DOMAIN fa |->
                     IF i # fatura_id THEN fa[i]
                     ELSE IF f.yeni_durum = "Faturalandi"
                     THEN [stamped(fa[i]) EXCEPT !.fatura_tarihi = ts]
                     ELSE IF f.yeni_durum = "Tahsil Edildi"
                     THEN [stamped(fa[i]) EXCEPT !.tahsil_tarihi = ts]
                     ELSE stamped(fa[i])],
                 m, kz, <<"success">>)

\* The POST branch of finans_faturalar()
FaturalarHandler(fa, m, kz, f, u, ts) ==
    IF f.action = "set_price" THEN SetPrice(fa, m, kz, f, u, ts)
    ELSE IF f.action = "update_status" THEN UpdateStatus(fa, m, kz, f, u, ts)
    ELSE FinOutcome(fa, m, kz, <<>>)

\* The POST branch of finans_maliyetler()
MaliyetlerHandler(fa, m, kz, f, u, ts) ==
    IF ~(f.miktar = "" \/ IsReal(f.miktar)) \/ ~IsReal(f.birim_fiyat)
    THEN FinOutcome(fa, m, kz, <<"sayisal">>)
    ELSE LET miktar == IF f.miktar = "" THEN Num(0) ELSE Real(f.miktar)
             birim_fiyat == Real(f.birim_fiyat)
             toplam_tutar == IF FPos(miktar) THEN FMul(miktar, birim_fiyat)
                             ELSE birim_fiyat
             audit_fields == add_audit_fields_for_create(u, ts)
         IN  IF f.maliyet_turu = "" \/ f.aciklama = "" \/ f.tarih = ""
             THEN FinOutcome(fa, m, kz, <<"zorunlu">>)
             ELSE IF Bind(birim_fiyat) = Null \/ Bind(toplam_tutar) = Null
             THEN \* NOT NULL constraint failed
                  FinOutcome(fa, m, kz, <<"hata">>)
             ELSE FinOutcome(fa,
                      Append(m, [maliyet_turu |-> f.maliyet_turu,
                                 tarih |-> f.tarih, aciklama |-> f.aciklama,
                                 miktar |-> Bind(miktar),
                                 birim_fiyat |-> Bind(birim_fiyat),
                                 toplam_tutar |-> Bind(toplam_tutar),
                                 sera_adi |-> f.sera_adi,
                                 created_by |-> audit_fields.created_by,
                                 modified_by |-> audit_fields.modified_by,
                                 modified_at |-> audit_fields.modified_at]),
                      kz, <<"success">>)

\* A request argument that the URL does not carry
Absent == "(absent)"

\* The invoices the income query selects
GelirRows(fa, h, baslangic, bitis, sera_filter) ==
    {i \in DOMAIN fa :
        /\ Between(fa[i].hasat_tarihi, baslangic, bitis)
        /\ fa[i].birim_fiyat # Null
        /\ sera_filter # "" => Like(h[fa[i].hasat_id].parsil_alan, sera_filter)}

\* The cost entries the cost query selects
GiderRows(m, baslangic, bitis, sera_filter) ==
    {j \in DOMAIN m :
        /\ Between(m[j].tarih, baslangic, bitis)
        /\ sera_filter # "" => Like(m[j].sera_adi, sera_filter)}

\* finans_kar_zarar(): the report is computed and its INSERT is tried; the
\* four ratio columns (karlillik_orani, kg_basina_*) may be NULL and are
\* left out
KarZararHandler(fa, m, kz, h, args, u, ts) ==
    LET baslangic == IF args.baslangic = Absent THEN MonthStart(ts)
                     ELSE args.baslangic
        bitis == IF args.bitis = Absent THEN Strftime(ts) ELSE args.bitis
        sera_filter == IF args.sera = Absent THEN "" ELSE args.sera
        G == GelirRows(fa, h, baslangic, bitis, sera_filter)
        toplam_gelir == SumTutar(fa, G)
        toplam_kg == SumKg(fa, G)
        toplam_gider == SumTutar(m, GiderRows(m, baslangic, bitis, sera_filter))
        net_kar_zarar == FSub(toplam_gelir, toplam_gider)
        audit_fields == add_audit_fields_for_create(u, ts)
    IN  IF Bind(toplam_gelir) = Null \/ Bind(toplam_gider) = Null
           \/ Bind(net_kar_zarar) = Null
        THEN \* NOT NULL constraint failed: caught and printed
             FinOutcome(fa, m, kz, <<>>)
        ELSE FinOutcome(fa, m,
                 Append(kz, [hesaplama_tarihi |-> Strftime(ts),
                             donem_baslangic |-> baslangic,
                             donem_bitis |-> bitis,
                             sera_adi |-> sera_filter,
                             toplam_gelir |-> toplam_gelir,
                             toplam_gider |-> toplam_gider,
                             net_kar_zarar |-> net_kar_zarar,
                             hasat_miktari |-> toplam_kg,
                             created_by |-> audit_fields.created_by,
                             modified_by |-> audit_fields.modified_by,
                             modified_at |-> audit_fields.modified_at]),
                 <<>>)

SetPriceForm(fatura_id, birim_fiyat) ==
    [action |-> "set_price", fatura_id |-> fatura_id,
     birim_fiyat |-> birim_fiyat, notlar |-> ""]

UpdateStatusForm(fatura_id, yeni_durum) ==
    [action |-> "update_status", fatura_id |-> fatura_id,
     yeni_durum |-> yeni_durum]

FaturalarForms ==
    {SetPriceForm("1", "2"), SetPriceForm("1", "inf"), SetPriceForm("2", "2"),
     SetPriceForm("4", "2"), SetPriceForm("1", "abc"), SetPriceForm("1", "nan")}
    \cup {UpdateStatusForm("1", d) : d \in {"Faturalandi", "Tahsil Edildi"}}
    \cup {UpdateStatusForm("abc", "Faturalandi")}

MaliyetForm(tarih, miktar, birim_fiyat, sera_adi) ==
    [maliyet_turu |-> "Su", tarih |-> tarih, aciklama |-> "fatura",
     miktar |-> miktar, birim_fiyat |-> birim_fiyat, sera_adi |-> sera_adi]

MaliyetForms ==
    {MaliyetForm("2024-02-10", "", "3", ""),
     MaliyetForm("2024-03-01", "", "3", ""),
     MaliyetForm("2024-03-01", "", "inf", ""),
     MaliyetForm("2024-03-01", "2", "2", "Sera1"),
          MaliyetForm("", "", "3", ""), MaliyetForm("2024-03-01", "", "abc", ""),
          MaliyetForm("2024-03-01", "", "nan", "")}

KarZararArgs(baslangic, bitis, sera) ==
    [baslangic |-> baslangic, bitis |-> bitis, sera |-> sera]

KarZararRequests ==
    {KarZararArgs(Absent, Absent, Absent),
     KarZararArgs("2024-02-10", "2024-03-01", Absent),
     KarZararArgs("2024-03-01", "2024-03-01", ""),
     KarZararArgs("2024-02-10", "2024-03-01", "Sera"),
     KarZararArgs("2024-03-01", "2024-02-10", Absent)}

\* The harvests a finance behaviour starts from: each left an invoice
Harvesting(parsil_alan, hasat_tarihi, hasat_miktari, day) ==
    [form |-> [HasatForm(parsil_alan, hasat_miktari, "Firma", "", "")
                   EXCEPT !.hasat_tarihi = hasat_tarihi],
     day |-> day]

FinHarvests ==
    <<Harvesting("Sera1", "2024-03-01", "3", 1),
      Harvesting("Sera2", "2024-02-10", "2", 2)>>

RECURSIVE Harvested(_)
Harvested(script) ==
    IF script = <<>>
    THEN NoRequest.pre
    ELSE LET step == script[Len(script)]
             before == Harvested(SubSeq(script, 1, Len(script) - 1))
         IN  (CHOOSE o \in HasatHandler(before, step.form, StockKeeper,
                                        step.day) : TRUE).db

FinInit ==
    /\ stok = Harvested(FinHarvests).stok
    /\ sulama = <<>>
    /\ gubreleme = <<>>
    /\ hasat = Harvested(FinHarvests).hasat
    /\ faturalar = Harvested(FinHarvests).faturalar
    /\ now = FirstDay
    /\ user = SessionUser
    /\ nreq = 0
    /\ last = NoRequest
    /\ conns = [c \in Clients |-> NoConnection]
    /\ maliyetler = <<>>
    /\ kar_zarar = <<>>
    /\ uretim = <<>>
    /\ personeller = <<>>
    /\ gorevler = <<>>
    /\ devam = <<>>
    /\ users = FirstUsers
    /\ login_attempts = <<>>

\* One finance request, handled from its first statement to its response
FinRequest(op, f, o) ==
    /\ nreq < MaxFinReq
    /\ faturalar' = o.faturalar
    /\ maliyetler' = o.maliyetler
    /\ kar_zarar' = o.kar_zarar
    /\ last' = [op |-> op, form |-> f, flash |-> o.flash, calls |-> <<>>,
                pre |-> Tables]
    /\ nreq' = nreq + 1
    /\ UNCHANGED <<stok, sulama, gubreleme, hasat, now, user, conns, uretim,
                   personeller, gorevler, devam, users, login_attempts>>

Faturalar ==
    \E f \in FaturalarForms :
        FinRequest("finans_faturalar", f,
                   FaturalarHandler(faturalar, maliyetler, kar_zarar, f,
                                    user, now))

Maliyetler ==
    \E f \in MaliyetForms :
        FinRequest("finans_maliyetler", f,
                   MaliyetlerHandler(faturalar, maliyetler, kar_zarar, f,
                                     user, now))

KarZarar ==
    \E args \in KarZararRequests :
        FinRequest("finans_kar_zarar", args,
                   KarZararHandler(faturalar, maliyetler, kar_zarar, hasat,
                                   args, user, now))

FinNext == Faturalar \/ Maliyetler \/ KarZarar \/ Tick

FinSpec == FinInit /\ [][FinNext]_vars

\* The range a report request asks for
RangeStart(args) ==
    IF args.baslangic = Absent THEN MonthStart(now) ELSE args.baslangic

RangeEnd(args) == IF args.bitis = Absent THEN Strftime(now) ELSE args.bitis

(* C18: every GET /finans/kar-zarar persists exactly one new snapshot row *)
(* for the requested range, with net_kar_zarar = toplam_gelir -           *)
(* toplam_gider, toplam_gelir the sum over the priced invoices harvested  *)
(* in the range and toplam_gider the sum over the costs dated in the      *)
(* range (of the greenhouse asked for, when one is); the snapshots stored *)
(* before are unchanged.  With an infinite income and an infinite cost    *)
(* the difference is not a number and the INSERT fails, so this fails.    *)
C18_EveryReportPersisted ==
    [][(nreq' = nreq + 1 /\ last'.op = "finans_kar_zarar") =>
          LET args == last'.form
              sera == IF args.sera = Absent THEN "" ELSE args.sera
              G == {i \in DOMAIN faturalar :
                       /\ faturalar[i].birim_fiyat # Null
                       /\ Between(faturalar[i].hasat_tarihi,
                                  RangeStart(args), RangeEnd(args))
                       /\ sera # "" =>
                              Like(hasat[faturalar[i].hasat_id].parsil_alan,
                                   sera)}
              M == {j \in DOMAIN maliyetler :
                       /\ Between(maliyetler[j].tarih,
                                  RangeStart(args), RangeEnd(args))
                       /\ sera # "" => Like(maliyetler[j].sera_adi, sera)}
          IN  /\ Len(kar_zarar') = Len(kar_zarar) + 1
              /\ SubSeq(kar_zarar', 1, Len(kar_zarar)) = kar_zarar
              /\ LET row == kar_zarar'[Len(kar_zarar')]
                 IN  /\ row.donem_baslangic = RangeStart(args)
                     /\ row.donem_bitis = RangeEnd(args)
                     /\ row.toplam_gelir = SumTutar(faturalar, G)
                     /\ row.toplam_gider = SumTutar(maliyetler, M)
                     /\ row.net_kar_zarar =
                            FSub(row.toplam_gelir, row.toplam_gider)]_vars

----------------------------------------------------------------------------
(* The other handlers that write: /uretim, /uretim/guncelle, /personel,   *)
(* /devam, /login, /logout, /admin/user/add and /admin/user/toggle.  A    *)
(* nullable number (gercek_verim) is <<>> when NULL and <<n>> otherwise.  *)

\* What one of these handlers leaves behind: the tables it may write, the
\* session and the flashed messages
RecOutcome(u, p, g, d, us, la, session, flash) ==
    [uretim |-> u, personel |-> p, gorevler |-> g, devam |-> d, users |-> us,
     login_attempts |-> la, session |-> session, flash |-> flash]

\* The tables and the session as a request finds them
Records ==
    RecOutcome(uretim, personeller, gorevler, devam, users, login_attempts,
               user, <<>>)

\* The POST branch of uretim()
UretimHandler(r, f, u, ts) ==
    IF ~IsNumOr0(f.alan) \/ ~IsNumOr0(f.beklenen_verim)
    THEN [r EXCEPT !.flash = <<"sayisal">>]
    ELSE IF f.sera_adi = "" \/ f.urun_adi = "" \/ f.ekim_tarihi = ""
    THEN [r EXCEPT !.flash = <<"zorunlu">>]
    ELSE LET audit_fields == add_audit_fields_for_create(u, ts)
         IN  [r EXCEPT
                 !.uretim = Append(@,
                     [sera_adi |-> f.sera_adi, urun_adi |-> f.urun_adi,
                      ekim_tarihi |-> f.ekim_tarihi,
                      alan |-> FloatOr0(f.alan),
                      beklenen_verim |-> FloatOr0(f.beklenen_verim),
                      gercek_verim |-> <<>>, notlar |-> Text(f.notlar),
                      durum |-> "Ekim Yapildi",
                      created_by |-> audit_fields.created_by,
                      modified_by |-> audit_fields.modified_by,
                      modified_at |-> audit_fields.modified_at]),
                 !.flash = <<"success">>]

\* uretim_guncelle(id)
UretimGuncelleHandler(r, id, f, u, ts) ==
    IF f.gercek_verim # "" /\ ~IsNum(f.gercek_verim)
    THEN [r EXCEPT !.flash = <<"hata">>]
    ELSE LET gercek_verim == IF f.gercek_verim # ""
                             THEN <<Float(f.gercek_verim)>> ELSE <<>>
             audit_fields == add_audit_fields_for_update(u, ts)
         IN  [r EXCEPT
                 !.uretim = [i \in DOMAIN @ |->
                     IF i = id
                     THEN [@[i] EXCEPT !.durum = f.durum,
                                       !.gercek_verim = gercek_verim,
                                       !.notlar = Text(f.notlar),
                                       !.modified_by = audit_fields.modified_by,
                                       !.modified_at = audit_fields.modified_at]
                     ELSE @[i]],
                 !.flash = <<"success">>]

\* The POST branch of personel()
PersonelHandler(r, f, u, ts) ==
    LET audit_fields == add_audit_fields_for_create(u, ts)
    IN  IF f.action = "personel_ekle"
        THEN IF ~IsNumOr0(f.aylik_maas)
             THEN [r EXCEPT !.flash = <<"sayisal">>]
             ELSE IF f.personel_adi = ""
             THEN [r EXCEPT !.flash = <<"zorunlu">>]
             ELSE [r EXCEPT
                      !.personel = Append(@,
                          [personel_adi |-> f.personel_adi,
                           aylik_maas |-> FloatOr0(f.aylik_maas),
                           aktif |-> 1,
                           created_by |-> audit_fields.created_by,
                           modified_by |-> audit_fields.modified_by,
                           modified_at |-> audit_fields.modified_at]),
                      !.flash = <<"success">>]
        ELSE IF f.action = "gorev_ekle"
        THEN IF f.personel_id = "" \/ f.gorev = "" \/ f.tarih = ""
             THEN [r EXCEPT !.flash = <<"zorunlu">>]
             ELSE [r EXCEPT
                      !.gorevler = Append(@,
                          [personel_id |-> f.personel_id, gorev |-> f.gorev,
                           tarih |-> f.tarih,
                           created_by |-> audit_fields.created_by,
                           modified_by |-> audit_fields.modified_by,
                           modified_at |-> audit_fields.modified_at]),
                      !.flash = <<"success">>]
        ELSE r

\* request.form.get(f'durum_{id}', 'Gelmedi')
DurumOf(f, id) == IF id \in DOMAIN f.durum THEN f.durum[id] ELSE "Gelmedi"

\* Variant: the loop inserts a record whether or not one exists
RECURSIVE DevamFrom_AlwaysInsert(_, _, _, _, _, _)
DevamFrom_AlwaysInsert(d, p, id, f, u, ts) ==
    IF id > Len(p)
    THEN d
    ELSE IF p[id].aktif # 1
    THEN DevamFrom_AlwaysInsert(d, p, id + 1, f, u, ts)
    ELSE LET audit_fields == add_audit_fields_for_create(u, ts)
         IN  DevamFrom_AlwaysInsert(
                 Append(d, [personel_id |-> id, tarih |-> f.tarih,
                            durum |-> DurumOf(f, id),
                            created_by |-> audit_fields.created_by,
                            modified_by |-> audit_fields.modified_by,
                            modified_at |-> audit_fields.modified_at]),
                 p, id + 1, f, u, ts)

\* The loop of devam() over the active staff, from staff id on
RECURSIVE DevamFrom(_, _, _, _, _, _)
DevamFrom(d, p, id, f, u, ts) ==
    IF id > Len(p)
    THEN d
    ELSE IF p[id].aktif # 1
    THEN DevamFrom(d, p, id + 1, f, u, ts)
    ELSE LET mevcut == {k \in DOMAIN d :
                           d[k].personel_id = id /\ d[k].tarih = f.tarih}
         IN  IF mevcut # {}
             THEN LET audit_fields == add_audit_fields_for_update(u, ts)
                  IN  DevamFrom(
                          [k \in DOMAIN d |->
                              IF k \in mevcut
                              THEN [d[k] EXCEPT
                                       !.durum = DurumOf(f, id),
                                       !.modified_by = audit_fields.modified_by,
                                       !.modified_at = audit_fields.modified_at]
                              ELSE d[k]],
                          p, id + 1, f, u, ts)
             ELSE LET audit_fields == add_audit_fields_for_create(u, ts)
                  IN  DevamFrom(
                          Append(d, [personel_id |-> id, tarih |-> f.tarih,
                                     durum |-> DurumOf(f, id),
                                     created_by |-> audit_fields.created_by,
                                     modified_by |-> audit_fields.modified_by,
                                     modified_at |-> audit_fields.modified_at]),
                          p, id + 1, f, u, ts)

\* The POST branch of devam()
DevamHandler(r, f, u, ts) ==
    [r EXCEPT !.devam = DevamFrom(@, r.personel, 1, f, u, ts),
              !.flash = <<"success">>]

\* User.query.filter_by(kullanici_adi=...).first(): 0 when there is none
UserId(us, kullanici_adi) ==
    IF \E i \in DOMAIN us : us[i].kullanici_adi = kullanici_adi
    THEN CHOOSE i \in DOMAIN us : us[i].kullanici_adi = kullanici_adi
    ELSE 0

\* The POST branch of login(), for a visitor without a session
LoginHandler(r, f, ts) ==
    LET id == UserId(r.users, f.kullanici_adi)
        attempt(basarili) == [kullanici_adi |-> f.kullanici_adi,
                              basarili |-> basarili]
    IN  IF id # 0 /\ r.users[id].aktif /\ r.users[id].password = f.password
        THEN [r EXCEPT !.users[id].son_giris = ts,
                       !.login_attempts = Append(@, attempt(TRUE)),
                       !.session = f.kullanici_adi,
                       !.flash = <<"Hos geldiniz">>]
        ELSE [r EXCEPT !.login_attempts = Append(@, attempt(FALSE)),
                       !.flash = <<"hatali">>]

\* current_user.is_admin()
IsAdmin(us, s) == UserId(us, s) # 0 /\ us[UserId(us, s)].rol = "admin"

\* admin_add_user()
AddUserHandler(r, f) ==
    IF ~IsAdmin(r.users, r.session)
    THEN [r EXCEPT !.flash = <<"admin yetkisi">>]
    ELSE IF UserId(r.users, f.kullanici_adi) # 0
    THEN [r EXCEPT !.flash = <<"zaten kullanimda">>]
    ELSE [r EXCEPT !.users = Append(@, User(f.kullanici_adi, f.rol,
                                            f.password)),
                   !.flash = <<"success">>]

\* admin_toggle_user(user_id)
ToggleUserHandler(r, user_id) ==
    IF ~IsAdmin(r.users, r.session)
    THEN [r EXCEPT !.flash = <<"admin yetkisi">>]
    ELSE IF user_id \notin DOMAIN r.users
    THEN [r EXCEPT !.flash = <<"404">>]
    ELSE IF user_id = UserId(r.users, r.session)
    THEN [r EXCEPT !.flash = <<"Kendi hesabinizi">>]
    ELSE [r EXCEPT !.users[user_id].aktif = ~@, !.flash = <<"success">>]

UretimForm(sera_adi, alan) ==
    [sera_adi |-> sera_adi, urun_adi |-> "Domates",
     ekim_tarihi |-> "2024-03-01", alan |-> alan, beklenen_verim |-> "",
     notlar |-> ""]

UretimForms == {UretimForm("Sera1", "2"), UretimForm("", "2"),
                UretimForm("Sera1", "abc")}

GuncelleForm(durum, gercek_verim) ==
    [durum |-> durum, gercek_verim |-> gercek_verim, notlar |-> "not"]

GuncelleForms == {GuncelleForm("Hasat Edildi", "3"), GuncelleForm("Buyume", ""),
                  GuncelleForm("Buyume", "abc")}

PersonelForms ==
    {[action |-> "personel_ekle", personel_adi |-> "Veli", aylik_maas |-> "4"],
     [action |-> "personel_ekle", personel_adi |-> "", aylik_maas |-> ""],
     [action |-> "gorev_ekle", personel_id |-> "1", gorev |-> "Budama",
      tarih |-> "2024-03-01"],
     [action |-> "gorev_ekle", personel_id |-> "", gorev |-> "Budama",
      tarih |-> "2024-03-01"]}

DevamForms ==
    {[tarih |-> "2024-03-01", durum |-> <<"Geldi">>],
     [tarih |-> "2024-03-01", durum |-> <<>>]}

LoginForms ==
    {[kullanici_adi |-> StockKeeper, password |-> "admin123"],
     [kullanici_adi |-> SessionUser, password |-> "sifre"],
     [kullanici_adi |-> SessionUser, password |-> "yanlis"],
     [kullanici_adi |-> "veli", password |-> "sifre"]}

AddUserForms ==
    {[kullanici_adi |-> "veli", password |-> "sifre", rol |-> "kullanici"],
     [kullanici_adi |-> SessionUser, password |-> "x", rol |-> "kullanici"]}

\* One request to one of these handlers, handled from its first statement to
\* its response
RecRequest(op, f, o) ==
    /\ nreq < MaxReq
    /\ uretim' = o.uretim
    /\ personeller' = o.personel
    /\ gorevler' = o.gorevler
    /\ devam' = o.devam
    /\ users' = o.users
    /\ login_attempts' = o.login_attempts
    /\ user' = o.session
    /\ last' = [op |-> op, form |-> f, flash |-> o.flash, calls |-> <<>>,
                pre |-> Tables]
    /\ nreq' = nreq + 1
    /\ UNCHANGED <<stok, sulama, gubreleme, hasat, faturalar, now, conns,
                   maliyetler, kar_zarar>>

\* @login_required lets the request through to the handler
LoggedIn == user # Anonymous

Uretim ==
    /\ LoggedIn
    /\ \E f \in UretimForms :
          RecRequest("uretim", f,
                     UretimHandler(Records, f, get_current_username(user), now))

UretimGuncelle ==
    /\ LoggedIn
    /\ \E id \in 1..2, f \in GuncelleForms :
          RecRequest("uretim_guncelle", f,
                     UretimGuncelleHandler(Records, id, f,
                                           get_current_username(user), now))

Personel ==
    /\ LoggedIn
    /\ \E f \in PersonelForms :
          RecRequest("personel", f,
                     PersonelHandler(Records, f, get_current_username(user),
                                     now))

Devam ==
    /\ LoggedIn
    /\ \E f \in DevamForms :
          RecRequest("devam", f,
                     DevamHandler(Records, f, get_current_username(user), now))

Login ==
    /\ ~LoggedIn
    /\ \E f \in LoginForms : RecRequest("login", f, LoginHandler(Records, f, now))

Logout ==
    /\ LoggedIn
    /\ RecRequest("logout", <<>>, [Records EXCEPT !.session = Anonymous])

AddUser ==
    /\ LoggedIn
    /\ \E f \in AddUserForms :
          RecRequest("admin_add_user", f, AddUserHandler(Records, f))

ToggleUser ==
    /\ LoggedIn
    /\ \E user_id \in 1..3 :
          RecRequest("admin_toggle_user", user_id,
                     ToggleUserHandler(Records, user_id))

\* The stock and finance requests of a session, on a few forms each
AuditStokForms ==
    {StokForm("NPK", "Gubre", "2", "ekle", "sayim"),
     StokForm("NPK", "Gubre", "1", "cikar", ""),
     StokForm("Torba", "Kutu", "1", "ekle", "")}

AuditStok ==
    /\ LoggedIn
    /\ \E f \in AuditStokForms :
          Request("stok", f,
                  StokHandler(Tables, f, get_current_username(user), now))

AuditGubreleme ==
    /\ LoggedIn
    /\ Request("gubreleme", GubrelemeForm("Sera1", "2"),
               GubrelemeHandler(Tables, GubrelemeForm("Sera1", "2"),
                                get_current_username(user), now))

AuditHasat ==
    /\ LoggedIn
    /\ \E f \in {HasatForm("P1", "3", "Firma", "2", "")} :
          Request("hasat", f,
                  HasatHandler(Tables, f, get_current_username(user), now))

AuditSulama ==
    /\ LoggedIn
    /\ \E f \in {SulamaForm(FALSE, "Sera1", <<Gubreli2>>),
                 SulamaForm(TRUE, "Sera1", <<Normal, Gubreli2>>)} :
          Request("sulama", f,
                  SulamaHandler(Tables, f, get_current_username(user), now))

AuditFaturalar ==
    /\ LoggedIn
    /\ nreq < MaxReq
    /\ \E f \in {SetPriceForm("1", "2"), UpdateStatusForm("1", "Faturalandi")} :
          FinRequest("finans_faturalar", f,
                     FaturalarHandler(faturalar, maliyetler, kar_zarar, f,
                                      get_current_username(user), now))

AuditMaliyetler ==
    /\ LoggedIn
    /\ nreq < MaxReq
    /\ \E f \in {MaliyetForm("2024-03-01", "", "3", "")} :
          FinRequest("finans_maliyetler", f,
                     MaliyetlerHandler(faturalar, maliyetler, kar_zarar, f,
                                       get_current_username(user), now))

AuditKarZarar ==
    /\ LoggedIn
    /\ nreq < MaxReq
    /\ \E args \in {KarZararArgs(Absent, Absent, Absent)} :
          FinRequest("finans_kar_zarar", args,
                     KarZararHandler(faturalar, maliyetler, kar_zarar, hasat,
                                     args, get_current_username(user), now))

\* A behaviour starts in any session: nobody, the session user or the admin
AuditInit ==
    /\ stok \in {Stocked(script) : script \in StockScripts}
    /\ sulama = <<>>
    /\ gubreleme = <<>>
    /\ hasat = <<>>
    /\ faturalar = <<>>
    /\ now = FirstDay
    /\ user \in {Anonymous, SessionUser, StockKeeper}
    /\ nreq = 0
    /\ last = NoRequest
    /\ conns = [c \in Clients |-> NoConnection]
    /\ maliyetler = <<>>
    /\ kar_zarar = <<>>
    /\ uretim = <<>>
    /\ personeller = <<>>
    /\ gorevler = <<>>
    /\ devam = <<>>
    /\ users = FirstUsers
    /\ login_attempts = <<>>

AuditNext ==
    \/ Uretim \/ UretimGuncelle \/ Personel \/ Devam
    \/ Login \/ Logout \/ AddUser \/ ToggleUser
    \/ AuditStok \/ AuditGubreleme \/ AuditHasat \/ AuditSulama
    \/ AuditFaturalar \/ AuditMaliyetler \/ AuditKarZarar
    \/ Tick

AuditSpec == AuditInit /\ [][AuditNext]_vars

\* The sqlite tables, which carry the audit columns
AuditedTables ==
    [stok |-> stok, sulama |-> sulama, gubreleme |-> gubreleme,
     hasat |-> hasat, faturalar |-> faturalar, maliyetler |-> maliyetler,
     kar_zarar |-> kar_zarar, uretim |-> uretim, personel |-> personeller,
     gorevler |-> gorevler, devam |-> devam]

\* Every table a handler writes
AllTables ==
    [t \in DOMAIN AuditedTables \cup {"users", "login_attempts"} |->
        IF t = "users" THEN users
        ELSE IF t = "login_attempts" THEN login_attempts
        ELSE AuditedTables[t]]

\* The rows of new that old did not have, and those it had differently
Inserted(old, new) == DOMAIN new \ DOMAIN old

Updated(old, new) == {i \in DOMAIN old : new[i] # old[i]}

\* Every row written between old and new carries the stamp of u at ts
WritesStamped(old, new, u, ts) ==
    /\ \A i \in Inserted(old, new) :
          /\ {"created_by", "modified_by", "modified_at"} \subseteq DOMAIN new[i]
          /\ new[i].created_by = u
          /\ new[i].modified_by = u
          /\ new[i].modified_at = ts
    /\ \A i \in Updated(old, new) :
          /\ {"created_by", "modified_by", "modified_at"} \subseteq DOMAIN new[i]
          /\ new[i].modified_by = u
          /\ new[i].modified_at = ts
          /\ new[i].created_by = old[i].created_by

(* C19 as stated: every row a request handler inserts, in whatever table, *)
(* is stamped created_by = modified_by = the acting user ('sistem'        *)
(* without a session), and every update of a row sets modified_by and     *)
(* modified_at and leaves created_by.                                     *)
C19_EveryWriteStamped ==
    [][\A t \in DOMAIN AllTables :
          WritesStamped(AllTables[t], AllTables'[t],
                        get_current_username(user), now)]_vars

(* C19: every row a request handler inserts into one of the eleven sqlite *)
(* tables (uretim, stok, personel, devam, gorevler, hasat, sulama,        *)
(* gubreleme, faturalar, maliyetler, kar_zarar) is stamped created_by =   *)
(* modified_by = the logged-in user, and every later update of such a row *)
(* sets modified_by and modified_at and leaves created_by; these handlers *)
(* all require a login, so 'sistem' is never written by a request.  The   *)
(* rows of users and login_attempts carry no audit columns.               *)
C19_AuditedWritesStamped ==
    [][\A t \in DOMAIN AuditedTables :
          /\ WritesStamped(AuditedTables[t], AuditedTables'[t], user, now)
          /\ AuditedTables'[t] # AuditedTables[t] => user # Anonymous]_vars

\* a request of one user inserted a row, and a row that another user had
\* created has been updated by this one
C19_Witness ==
    /\ \E t \in DOMAIN AuditedTables :
          \E i \in DOMAIN AuditedTables[t] :
              /\ AuditedTables[t][i].created_by = user
              /\ AuditedTables[t][i].modified_by = user
              /\ AuditedTables[t][i].modified_at = now
    /\ \E t \in DOMAIN AuditedTables :
          \E i \in DOMAIN AuditedTables[t] :
              /\ AuditedTables[t][i].created_by # user
              /\ AuditedTables[t][i].modified_by = user
              /\ AuditedTables[t][i].modified_at = now
    /\ nreq > 0

(* C20: a bulk irrigation request is all-or-nothing: when it finishes,    *)
(* either one sulama record has been committed for every valid entry and  *)
(* all their deductions were made, or no sulama record has been committed *)
(* and no stok quantity has changed.  After its rollback the bulk branch  *)
(* carries on into the single-entry code, which commits a record (and a   *)
(* deduction) for the last entry, so this fails, as C6 and C10 do.        *)
C20_BulkAllOrNothing ==
    (last.op = "sulama" /\ last.form.bulk_entry)
    => LET valid == SelectSeq(last.form.entries, BulkValid)
       IN  \/ /\ Len(sulama) = Len(last.pre.sulama) + Len(valid)
              /\ \A b \in BatchCalls : b.ok
           \/ /\ sulama = last.pre.sulama
              /\ Miktarlar(stok) = Miktarlar(last.pre.stok)

----------------------------------------------------------------------------
\* A POST /stok with islem_turu 'cikar' that passed validation
CikarRequest ==
    /\ last.op = "stok"
    /\ last.form.islem_turu = "cikar"
    /\ IsNum(last.form.miktar)
    /\ last.form.malzeme_adi # ""

(* C21: a 'cikar' request for an existing material whose amount exceeds   *)
(* the row's quantity is rejected and leaves stok as it was; otherwise    *)
(* the row's quantity becomes the old quantity minus the requested amount *)
(* and no other quantity changes.                                         *)
C21_CikarRejectsOrSubtracts ==
    CikarRequest =>
        \A i \in Mevcut(last.pre.stok, last.form.malzeme_adi, last.form.depo) :
            IF Float(last.form.miktar) > last.pre.stok[i].miktar
            THEN Flashed("Yetersiz stok") /\ stok = last.pre.stok
            ELSE /\ Miktarlar(stok) =
                       [Miktarlar(last.pre.stok) EXCEPT
                           ![i] = @ - Float(last.form.miktar)]
                 /\ Len(stok) = Len(last.pre.stok)

\* a removal of more than the row held was rejected
C21_Witness ==
    /\ CikarRequest
    /\ Flashed("Yetersiz stok")
    /\ \E i \in Mevcut(last.pre.stok, last.form.malzeme_adi, last.form.depo) :
          Float(last.form.miktar) > last.pre.stok[i].miktar

(* C28: a 'cikar' request never increases inventory: it creates no stok   *)
(* row and raises no quantity.  With no row of that name and depot the    *)
(* handler reaches its INSERT branch, and a negative amount passes the    *)
(* check of the remove branch, so this fails.                             *)
C28_CikarNeverIncreases ==
    CikarRequest =>
        /\ Len(stok) = Len(last.pre.stok)
        /\ \A i \in DOMAIN last.pre.stok :
               stok[i].miktar <= last.pre.stok[i].miktar

\* What a harvest takes from a category: nothing when the count is not
\* positive
Used(count) == IF FloatOr0(count) > 0 THEN FloatOr0(count) ELSE 0

(* C22: a successful harvest request commits the hasat record together    *)
(* with its Kutu and Palet deductions, and creates exactly one invoice,   *)
(* in status 'Beklemede', referencing the new harvest and carrying its    *)
(* quantity, if and only if teslim_edilen was given; a harvest request    *)
(* that does not succeed commits nothing; every invoice references an     *)
(* existing hasat record.                                                 *)
C22_HarvestCommitsTogether ==
    /\ \A i \in DOMAIN faturalar : faturalar[i].hasat_id \in DOMAIN hasat
    /\ last.op = "hasat" =>
          IF Flashed("success")
          THEN LET f == last.form
                   h == hasat[Len(hasat)]
               IN  /\ Len(hasat) = Len(last.pre.hasat) + 1
                   /\ SubSeq(hasat, 1, Len(hasat) - 1) = last.pre.hasat
                   /\ h.parsil_alan = f.parsil_alan
                   /\ h.hasat_miktari = Float(f.hasat_miktari)
                   /\ Total(stok, "Kutu")
                          = Total(last.pre.stok, "Kutu") - Used(f.kutu_sayisi)
                   /\ Total(stok, "Palet")
                          = Total(last.pre.stok, "Palet") - Used(f.palet_sayisi)
                   /\ IF f.teslim_edilen # ""
                      THEN /\ Len(faturalar) = Len(last.pre.faturalar) + 1
                           /\ SubSeq(faturalar, 1, Len(faturalar) - 1)
                                  = last.pre.faturalar
                           /\ faturalar[Len(faturalar)].durum = "Beklemede"
                           /\ faturalar[Len(faturalar)].hasat_id = Len(hasat)
                           /\ faturalar[Len(faturalar)].miktar = h.hasat_miktari
                      ELSE faturalar = last.pre.faturalar
          ELSE Tables = last.pre

\* a harvest with a recipient, boxes and pallets succeeded and left an invoice
C22_Witness ==
    /\ last.op = "hasat"
    /\ Flashed("success")
    /\ last.form.teslim_edilen # ""
    /\ Used(last.form.kutu_sayisi) > 0
    /\ Used(last.form.palet_sayisi) > 0
    /\ Len(faturalar) = Len(last.pre.faturalar) + 1

\* The statuses the faturalar schema names
Durumlar == {"Beklemede", "Fiyatlandirildi", "Faturalandi", "Tahsil Edildi"}

(* C23: in every reachable state each invoice's durum is one of           *)
(* 'Beklemede', 'Fiyatlandirildi', 'Faturalandi', 'Tahsil Edildi', and an *)
(* invoice in one of the last three has a unit price with toplam_tutar =  *)
(* miktar * birim_fiyat.  update_status writes whatever yeni_durum the    *)
(* form carries, on an invoice that may have no price, so this fails.     *)
C23_InvoiceStatusConsistent ==
    \A i \in DOMAIN faturalar :
        /\ faturalar[i].durum \in Durumlar
        /\ faturalar[i].durum # "Beklemede" =>
              /\ faturalar[i].birim_fiyat.k # "null"
              /\ faturalar[i].toplam_tutar =
                     FMul(Num(faturalar[i].miktar), faturalar[i].birim_fiyat)

----------------------------------------------------------------------------
(* Fertilization requests only, one after the other *)

GubreNext == Gubreleme \/ Tick

GubreSpec == Init /\ [][GubreNext]_vars

\* The sum of gubre_miktari over the gubreleme records
RECURSIVE SumGubre(_)
SumGubre(g) ==
    IF g = <<>> THEN 0 ELSE Head(g).gubre_miktari + SumGubre(Tail(g))

\* What has been recorded and what is still in stock
GubreBalance == Total(stok, "Gubre") + SumGubre(gubreleme)

(* C24: over fertilization requests executed one after the other with no  *)
(* other inventory operation, the decrease of the total 'Gubre' stock     *)
(* equals the sum of gubre_miktari over the gubreleme records: each       *)
(* request leaves stock plus recorded amounts as it was, and it adds a    *)
(* record exactly when it changed a quantity.                             *)
C24_DecreaseEqualsRecorded ==
    [][/\ GubreBalance' = GubreBalance
       /\ Len(gubreleme') = Len(gubreleme) + 1
              <=> Total(stok', "Gubre") < Total(stok, "Gubre")
       /\ Len(gubreleme') = Len(gubreleme)
              <=> Miktarlar(stok') = Miktarlar(stok)]_vars

\* two fertilizations have been recorded and the stock is lower by their sum
C24_Witness ==
    /\ Len(gubreleme) = 2
    /\ last.op = "gubreleme"
    /\ Flashed("success")
    /\ SumGubre(gubreleme) = 4
    /\ Total(stok, "Gubre") = Total(last.pre.stok, "Gubre") - 2

----------------------------------------------------------------------------
\* The sulama records the last request committed
NewSulama == SubSeq(sulama, Len(last.pre.sulama) + 1, Len(sulama))

\* The chemical amounts of the records of one type among them
RECURSIVE SumKimyasal(_, _)
SumKimyasal(recs, sulama_turu) ==
    IF recs = <<>>
    THEN 0
    ELSE (IF Head(recs).sulama_turu = sulama_turu /\ Head(recs).gubre_miktari > 0
          THEN Head(recs).gubre_miktari ELSE 0)
         + SumKimyasal(Tail(recs), sulama_turu)

(* C25: every sulama record of type 'Gubreli' or 'Ilacli' with            *)
(* gubre_miktari > 0 is committed together with a stock deduction of that *)
(* amount: an irrigation request lowers the 'Gubre' stock by the amounts  *)
(* of the Gubreli records it commits, and the 'Pestisit' and 'Kimyasal'   *)
(* stock by those of its Ilacli records.  An entry without gubre_kimyasal *)
(* is recorded with its amount and never deducted, so this fails.         *)
C25_RecordedAmountsDeducted ==
    last.op = "sulama" =>
        /\ Total(stok, "Gubre") = Total(last.pre.stok, "Gubre")
                                      - SumKimyasal(NewSulama, "Gubreli")
        /\ Total(stok, "Pestisit") = Total(last.pre.stok, "Pestisit")
                                         - SumKimyasal(NewSulama, "Ilacli")
        /\ Total(stok, "Kimyasal") = Total(last.pre.stok, "Kimyasal")
                                         - SumKimyasal(NewSulama, "Ilacli")

----------------------------------------------------------------------------
(* Irrigation requests with entries of type 'Ilacli' *)

Ilacli2Unnamed == Entry("10:00", "Ilacli", "1", "", "2")

IlacliForms ==
    {SulamaForm(FALSE, "Sera1", <<e>>) : e \in {Normal, Ilacli2, Ilacli2Unnamed}}
    \cup {SulamaForm(TRUE, "Sera1", es) :
              es \in {<<Ilacli2>>, <<Ilacli2, Ilacli2>>,
                      <<Normal, Ilacli2Unnamed>>}}

Ilaclama ==
    \E f \in IlacliForms :
        Request("sulama", f, SulamaHandler(Tables, f, user, now))

IlacNext == Ilaclama \/ Tick

IlacSpec == Init /\ [][IlacNext]_vars

(* C26: an irrigation entry of type 'Ilacli' with chemical amount g > 0   *)
(* is recorded only if g was deducted from a 'Pestisit' row and g from a  *)
(* 'Kimyasal' row, and when the 'Kimyasal' deduction fails neither        *)
(* category changes.  As in C25, an entry without gubre_kimyasal is       *)
(* recorded without any deduction, so this fails.                         *)
C26_IlacliDeductsBoth ==
    last.op = "sulama" =>
        /\ \A k \in DOMAIN NewSulama :
               (NewSulama[k].sulama_turu = "Ilacli"
                    /\ NewSulama[k].gubre_miktari > 0)
               => \A kategori \in {"Pestisit", "Kimyasal"} :
                      \E r \in DeductCalls :
                          /\ r.ok
                          /\ r.kategori = kategori
                          /\ r.miktar = NewSulama[k].gubre_miktari
        /\ (\E r \in DeductCalls : ~r.ok /\ r.kategori = "Kimyasal")
               => /\ Total(stok, "Pestisit") = Total(last.pre.stok, "Pestisit")
                  /\ Total(stok, "Kimyasal") = Total(last.pre.stok, "Kimyasal")
                  /\ NewSulama = <<>>

----------------------------------------------------------------------------
(* C27: under any interleaving of concurrent requests that use            *)
(* deduct_stock_item, no deduction writes a negative quantity: neither    *)
(* the rows a connection has updated and not yet committed nor the        *)
(* committed rows hold a miktar below 0.                                  *)
C27_NoNegativeWrite ==
    /\ \A i \in DOMAIN stok : stok[i].miktar >= 0
    /\ \A c \in Clients :
           \A i \in DOMAIN conns[c].work : conns[c].work[i].miktar >= 0

\* two requests read the same row, asked together for more than it held,
\* and both committed
C27_Witness ==
    \E a \in Clients, b \in Clients :
        \E i \in DOMAIN stok :
            /\ BothDeducted(a, b, i, conns[a].item.miktar)
            /\ conns[a].miktar + conns[b].miktar > conns[a].item.miktar
            /\ stok[i].miktar >= 0

----------------------------------------------------------------------------
(* Attendance.  No handler writes personel.aktif: it is set in the        *)
(* database, so the personel table a request finds may hold staff with    *)
(* aktif = 0, with the attendance recorded while they were active.        *)

\* A personel row as personel_ekle stored it, with aktif as it is now
Staff(personel_adi, aktif) ==
    [personel_adi |-> personel_adi, aylik_maas |-> 0, aktif |-> aktif,
     created_by |-> StockKeeper, modified_by |-> StockKeeper,
     modified_at |-> 1]

\* A devam row as an earlier devam request of the admin stored it
Attended(personel_id, tarih, durum) ==
    [personel_id |-> personel_id, tarih |-> tarih, durum |-> durum,
     created_by |-> StockKeeper, modified_by |-> StockKeeper,
     modified_at |-> 1]

StaffLists ==
    {<<Staff("Veli", 1)>>,
     <<Staff("Veli", 1), Staff("Ayse", 1)>>,
     <<Staff("Veli", 1), Staff("Ayse", 0)>>}

\* The attendance recorded for the staff list p on earlier days
AttendanceBefore(p) ==
    {<<>>,
     [i \in DOMAIN p |-> Attended(i, "2024-02-28", "Geldi")],
     [i \in DOMAIN p |-> Attended(i, "2024-03-01", "Izinli")]}

\* The attendance forms: a date and durum_<id> for some of the staff
DevamSheets ==
    {[tarih |-> t, durum |-> d] :
        t \in {"2024-03-01", "2024-03-02"},
        d \in {<<>>, <<"Geldi">>, <<"Geldi", "Izinli">>, <<"Gelmedi", "Geldi">>}}

DevamInit ==
    /\ stok = <<>>
    /\ sulama = <<>>
    /\ gubreleme = <<>>
    /\ hasat = <<>>
    /\ faturalar = <<>>
    /\ now = FirstDay
    /\ user = SessionUser
    /\ nreq = 0
    /\ last = NoRequest
    /\ conns = [c \in Clients |-> NoConnection]
    /\ maliyetler = <<>>
    /\ kar_zarar = <<>>
    /\ uretim = <<>>
    /\ personeller \in StaffLists
    /\ gorevler = <<>>
    /\ devam \in AttendanceBefore(personeller)
    /\ users = FirstUsers
    /\ login_attempts = <<>>

DevamKaydet ==
    /\ LoggedIn
    /\ \E f \in DevamSheets :
          RecRequest("devam", f,
                     DevamHandler(Records, f, get_current_username(user), now))

DevamNext == DevamKaydet \/ Personel \/ Tick

DevamSpec == DevamInit /\ [][DevamNext]_vars

\* The (staff member, date) pairs that have a record
DevamKeys(d) == {<<d[k].personel_id, d[k].tarih>> : k \in DOMAIN d}

\* The attendance state: who was what on which date
Attendance(d) ==
    {[personel_id |-> d[k].personel_id, tarih |-> d[k].tarih,
      durum |-> d[k].durum] : k \in DOMAIN d}

\* The staff the attendance form is about
Active(p) == {i \in DOMAIN p : p[i].aktif = 1}

\* devam has one record per (staff member, date)
DevamUnique(d) == Cardinality(DevamKeys(d)) = Len(d)

(* C29: there is at most one devam record per (staff member, date); an    *)
(* attendance form submitted for a date gives every active staff member   *)
(* exactly one record of that date with the submitted durum, updating the *)
(* record that exists instead of adding one; submitting the same form     *)
(* again leaves the attendance state as it is; and the records of         *)
(* inactive staff and of other dates are unchanged.                       *)
C29_OneRecordPerStaffAndDate ==
    /\ [](DevamUnique(devam)
          /\ (last.op = "devam" =>
                 Attendance(DevamHandler(Records, last.form, user, now).devam)
                     = Attendance(devam)))
    /\ [][(nreq' = nreq + 1 /\ last'.op = "devam") =>
             /\ DevamKeys(devam') =
                    DevamKeys(devam)
                    \cup {<<i, last'.form.tarih>> : i \in Active(personeller)}
             /\ \A k \in DOMAIN devam :
                    IF devam[k].tarih = last'.form.tarih
                       /\ devam[k].personel_id \in Active(personeller)
                    THEN /\ devam'[k].personel_id = devam[k].personel_id
                         /\ devam'[k].tarih = devam[k].tarih
                         /\ devam'[k].created_by = devam[k].created_by
                    ELSE devam'[k] = devam[k]
             /\ \A k \in DOMAIN devam' :
                    (devam'[k].tarih = last'.form.tarih
                         /\ devam'[k].personel_id \in Active(personeller))
                    => devam'[k].durum
                           = DurumOf(last'.form, devam'[k].personel_id)]_vars

\* the form of a date that already had records was submitted again with
\* another durum: the records were updated, none added, and the record of
\* an inactive staff member for that date is as it was
C29_Witness ==
    /\ last.op = "devam"
    /\ last.form.tarih = "2024-03-01"
    /\ Len(devam) = 2
    /\ Active(personeller) = {1}
    /\ devam[1].durum = "Geldi" /\ devam[1].created_by = StockKeeper
    /\ devam[1].modified_by = SessionUser
    /\ devam[2].durum = "Izinli" /\ devam[2].modified_by = StockKeeper

----------------------------------------------------------------------------
(* Accounts.  user is the session of one browser; the admin works in a    *)
(* browser of their own, logged in as StockKeeper.  A request with a      *)
(* session is let through by @login_required when load_user finds the     *)
(* row of the session's user: load_user does not read aktif, and the      *)
(* User class does not override is_active.                                *)

\* load_user(user_id): the user of the session, Anonymous without a row
load_user(us, s) == IF UserId(us, s) # 0 THEN s ELSE Anonymous

\* The account of s has been deactivated
Deactivated(us, s) == UserId(us, s) # 0 /\ ~us[UserId(us, s)].aktif

\* admin_toggle_user(user_id) requested from the admin's browser
AdminToggle ==
    /\ load_user(users, StockKeeper) # Anonymous
    /\ \E user_id \in DOMAIN users :
          LET o == ToggleUserHandler([Records EXCEPT !.session = StockKeeper],
                                     user_id)
          IN  RecRequest("admin_toggle_user",
                         [user_id |-> user_id, by |-> StockKeeper],
                         [o EXCEPT !.session = user])

\* A login-protected operation requested from the session of user
Protected ==
    /\ load_user(users, user) # Anonymous
    /\ Uretim

AuthNext == Login \/ Logout \/ AdminToggle \/ Protected \/ Tick

AuthSpec == AuditInit /\ [][AuthNext]_vars

(* C30: once an admin has deactivated a user account, that user performs  *)
(* no login-protected operation: a login with the account is refused, and *)
(* a request from a session opened before the deactivation is not         *)
(* accepted; an admin never deactivates their own account.  load_user     *)
(* accepts the session of a deactivated account, so this fails.           *)
C30_DeactivatedUserShutOut ==
    [][nreq' = nreq + 1 =>
          /\ (last'.op = "login" /\ Deactivated(users, last'.form.kullanici_adi))
                 => user' = Anonymous
          /\ last'.op = "uretim" => ~Deactivated(users, user)
          /\ last'.op = "admin_toggle_user" =>
                 users'[UserId(users, last'.form.by)].aktif
                     = users[UserId(users, last'.form.by)].aktif]_vars

============================================================================
